---- MODULE Spec2Model ----
(***************************************************************************)
(* The outfit-suggestion pipeline of server/routes.ts: structural          *)
(* validators, style naming, confidence scoring, the combinatorial         *)
(* fallback generator, the per-owner suggestion history and the two        *)
(* suggestion entry points (generateOutfitSuggestions and                  *)
(* generateAdvancedOutfitSuggestions).                                     *)
(***************************************************************************)
EXTENDS Integers, Sequences, FiniteSets, TLC

\* ------------------------------------------------------------------------
\* Bounds of the model
\* ------------------------------------------------------------------------
\* longest wardrobe of the request pipeline
MaxItems == 4
\* most raw outfits in one stylist response
MaxOutfits == 2
\* most suggestion requests in one behaviour
MaxCalls == 2
\* an item id that no wardrobe of the model holds (two decimal digits, so
\* that the default JavaScript sort orders it before 2..9)
UnknownId == 10
\* largest draw of Math.floor(Math.random() * 100) the model enumerates
MaxRandom == 1

\* ------------------------------------------------------------------------
\* Optional values (undefined / null in the source)
\* ------------------------------------------------------------------------
None == << >>

Some(v) == << v >>

\* x || d for an optional number: 0, null and undefined are falsy
OrElse(x, d) == IF x # None /\ x[1] # 0 THEN x[1] ELSE d

Max(a, b) == IF a >= b THEN a ELSE b

Min(a, b) == IF a <= b THEN a ELSE b

Contains(seq, v) == \E i \in DOMAIN seq : seq[i] = v

Range(seq) == { seq[i] : i \in DOMAIN seq }

\* Array.prototype.flatMap over a sequence of sequences
RECURSIVE Flatten(_)
Flatten(seqs) == IF seqs = << >> THEN << >> ELSE Head(seqs) \o Flatten(Tail(seqs))

\* ------------------------------------------------------------------------
\* Strings: the vocabulary of the model and what toLowerCase / includes do
\* on it
\* ------------------------------------------------------------------------
\* String.prototype.toLowerCase on the vocabulary
ToLowerCase(s) ==
    CASE s = "White" -> "white"
      [] s = "Navy Blue" -> "navy blue"
      [] s = "Winter Coat" -> "winter coat"
      [] s = "T-Shirt" -> "t-shirt"
      [] s = "Jeans" -> "jeans"
      [] s = "Dress" -> "dress"
      [] s = "Sneakers" -> "sneakers"
      [] s = "Scarf" -> "scarf"
      [] s = "Blazer" -> "blazer"
      [] s = "Rainy" -> "rainy"
      [] s = "Sunny" -> "sunny"
      [] s = "Black" -> "black"
      [] s = "Neon Orange" -> "neon orange"
      [] s = "Hot Pink" -> "hot pink"
      [] s = "Neon Top" -> "neon top"
      [] s = "Pink Skirt" -> "pink skirt"
      [] s = "Dark Neon Orange" -> "dark neon orange"
      [] s = "Bright Lime" -> "bright lime"
      [] s = "Red" -> "red"
      [] s = "Neon Jacket" -> "neon jacket"
      [] s = "Cap" -> "cap"
      [] s = "Heels" -> "heels"
      [] s = "Belt" -> "belt"
      [] s = "Bag" -> "bag"
      [] s = "Shawl" -> "shawl"
      [] s = "Tote" -> "tote"
      [] OTHER -> s

\* String.prototype.includes on the vocabulary: s contains sub
Includes(s, sub) ==
    \/ s = sub
    \/ << s, sub >> \in { << "navy blue", "blue" >>, << "navy blue", "navy" >>,
                          << "winter coat", "coat" >>, << "winter scarf", "scarf" >>,
                          << "t-shirt", "shirt" >>, << "sporty", "sport" >>,
                          << "dresses", "dress" >>,
                          << "dark neon orange", "neon orange" >> }

\* ------------------------------------------------------------------------
\* Clothing items (shared/schema.ts clothingItems)
\* ------------------------------------------------------------------------
Categories == { "tops", "bottoms", "dresses", "outerwear", "accessories", "shoes" }

\* the object JSON.parse(item.aiAnalysis) gives: an absent subcategory, style
\* or formality is "" and absent suitable_occasions are { } (the source
\* reads them through || '' and || [], or compares them with a non-empty
\* string), an absent weather_suitability is None
AnalysisObject(subcategory, style, weather_suitability, suitable_occasions) ==
    [ subcategory |-> subcategory, style |-> style,
      weather_suitability |-> weather_suitability,
      suitable_occasions |-> suitable_occasions, formality |-> "" ]

\* the garments the model's wardrobes are made of; warmthLevel 0 stands for
\* null (both are falsy where the source tests it), aiAnalysis holds the
\* object whose JSON text the column stores
Garment(kind) ==
    CASE kind = "tee" ->
           [ name |-> "T-Shirt", category |-> "tops", subcategory |-> "t_shirt",
             style |-> "casual", colors |-> << "White" >>, warmthLevel |-> 1,
             weatherSuitability |-> None, aiAnalysis |-> None ]
      [] kind = "blazer" ->
           [ name |-> "Blazer", category |-> "tops", subcategory |-> "blazer",
             style |-> "business", colors |-> << "Navy Blue" >>, warmthLevel |-> 3,
             weatherSuitability |-> Some({ "cold", "mild" }),
             aiAnalysis |-> Some(AnalysisObject("blazer", "business", None,
                                                { "business", "work" })) ]
      [] kind = "jeans" ->
           [ name |-> "Jeans", category |-> "bottoms", subcategory |-> "jeans",
             style |-> "casual", colors |-> << "blue" >>, warmthLevel |-> 2,
             weatherSuitability |-> Some({ "mild" }), aiAnalysis |-> None ]
      [] kind = "dress" ->
           [ name |-> "Dress", category |-> "dresses", subcategory |-> "dress",
             style |-> "formal", colors |-> << "black" >>, warmthLevel |-> 0,
             weatherSuitability |-> None, aiAnalysis |-> None ]
      [] kind = "coat" ->
           [ name |-> "Winter Coat", category |-> "outerwear", subcategory |-> "coat",
             style |-> "casual", colors |-> << "black" >>, warmthLevel |-> 5,
             weatherSuitability |-> Some({ "cold", "rain" }),
             aiAnalysis |-> Some(AnalysisObject("coat", "casual", Some({ "cold", "rain" }),
                                                { })) ]
      [] kind = "sneakers" ->
           [ name |-> "Sneakers", category |-> "shoes", subcategory |-> "sneakers",
             style |-> "sporty", colors |-> << "White" >>, warmthLevel |-> 2,
             weatherSuitability |-> Some({ "sun", "mild" }), aiAnalysis |-> None ]
      [] kind = "scarf" ->
           [ name |-> "Scarf", category |-> "accessories", subcategory |-> "winter scarf",
             style |-> "casual", colors |-> << "red" >>, warmthLevel |-> 4,
             weatherSuitability |-> Some({ "cold" }), aiAnalysis |-> None ]
      [] kind = "neon_top" ->
           [ name |-> "Neon Top", category |-> "tops", subcategory |-> "t_shirt",
             style |-> "sporty", colors |-> << "Neon Orange" >>, warmthLevel |-> 1,
             weatherSuitability |-> None, aiAnalysis |-> None ]
      [] kind = "pink_skirt" ->
           [ name |-> "Pink Skirt", category |-> "bottoms", subcategory |-> "skirt",
             style |-> "casual", colors |-> << "Hot Pink" >>, warmthLevel |-> 1,
             weatherSuitability |-> None, aiAnalysis |-> None ]
      [] kind = "neon_jacket" ->
           [ name |-> "Neon Jacket", category |-> "outerwear", subcategory |-> "jacket",
             style |-> "sporty", colors |-> << "Dark Neon Orange" >>, warmthLevel |-> 3,
             weatherSuitability |-> None, aiAnalysis |-> None ]
      [] kind = "lime_cap" ->
           [ name |-> "Cap", category |-> "accessories", subcategory |-> "cap",
             style |-> "sporty", colors |-> << "Bright Lime" >>, warmthLevel |-> 1,
             weatherSuitability |-> None, aiAnalysis |-> None ]
      [] kind = "magenta_heels" ->
           [ name |-> "Heels", category |-> "shoes", subcategory |-> "heels",
             style |-> "formal", colors |-> << "hot magenta" >>, warmthLevel |-> 1,
             weatherSuitability |-> None, aiAnalysis |-> None ]
      [] kind = "yellow_belt" ->
           [ name |-> "Belt", category |-> "accessories", subcategory |-> "belt",
             style |-> "casual", colors |-> << "fluorescent yellow" >>, warmthLevel |-> 1,
             weatherSuitability |-> None, aiAnalysis |-> None ]
      [] kind = "purple_bag" ->
           [ name |-> "Bag", category |-> "accessories", subcategory |-> "bag",
             style |-> "casual", colors |-> << "electric purple" >>, warmthLevel |-> 1,
             weatherSuitability |-> None, aiAnalysis |-> None ]
      [] kind = "shawl" ->
           [ name |-> "Shawl", category |-> "accessories", subcategory |-> "shawl",
             style |-> "casual", colors |-> << "red", "green", "yellow" >>,
             warmthLevel |-> 2, weatherSuitability |-> None, aiAnalysis |-> None ]
      [] kind = "tote" ->
           [ name |-> "Tote", category |-> "accessories", subcategory |-> "bag",
             style |-> "casual", colors |-> << "purple", "brown", "Red", "grey" >>,
             warmthLevel |-> 1, weatherSuitability |-> None, aiAnalysis |-> None ]

Kinds == { "tee", "blazer", "jeans", "dress", "coat", "sneakers", "scarf", "neon_top",
           "pink_skirt", "neon_jacket", "lime_cap", "magenta_heels", "yellow_belt",
           "purple_bag", "shawl", "tote" }

\* an analysed item of the store (the seeded items of MemStorage are
\* verified): the garment with its id and its owner
ClothingItem(id, userId, kind) ==
    [ id |-> id, userId |-> userId, isVerified |-> TRUE ] @@ Garment(kind)

\* the store after the owner uploaded garments of these kinds, in this order
StoreOf(userId, kinds) == [ i \in DOMAIN kinds |-> ClothingItem(i, userId, kinds[i]) ]

\* sequences over S of length lo..hi
SeqsBetween(S, lo, hi) == UNION { [ 1..n -> S ] : n \in lo..hi }

\* the ids of the items of a wardrobe
IdsOf(userItems) == { userItems[i].id : i \in DOMAIN userItems }

\* MemStorage.getClothingItems: the owner's items in insertion order
getClothingItems(store, userId) == SelectSeq(store, LAMBDA item : item.userId = userId)

\* ------------------------------------------------------------------------
\* Structural validators
\* ------------------------------------------------------------------------
\* userItems.filter(item => itemIds.includes(item.id))
SelectedItems(itemIds, userItems) ==
    SelectSeq(userItems, LAMBDA item : Contains(itemIds, item.id))

\* categoryCount[category] || 0
CategoryCount(selectedItems, category) ==
    Cardinality({ i \in DOMAIN selectedItems : selectedItems[i].category = category })

\* item.subcategory?.includes('glove') || ... 'scarf' ... 'hat' ... 'beanie'
IsColdAccessory(item) ==
    \E word \in { "glove", "scarf", "hat", "beanie" } : Includes(item.subcategory, word)

\* validateMandatoryOutfitStructure with a dress standing in for top and bottom
validateMandatoryOutfitStructure_DressSubstitutes(itemIds, userItems, temperature) ==
    LET selectedItems == SelectedItems(itemIds, userItems)
        availableOuterwear == SelectSeq(userItems, LAMBDA item : item.category = "outerwear")
        availableColdAccessories ==
            SelectSeq(userItems, LAMBDA item : item.category = "accessories" /\ IsColdAccessory(item))
        includedColdAccessories ==
            SelectSeq(selectedItems, LAMBDA item : item.category = "accessories" /\ IsColdAccessory(item))
    IN  /\ ~(Len(selectedItems) < 3)
        /\ \/ CategoryCount(selectedItems, "dresses") # 0
           \/ /\ CategoryCount(selectedItems, "bottoms") # 0
              /\ CategoryCount(selectedItems, "tops") # 0
        /\ CategoryCount(selectedItems, "shoes") # 0
        /\ ~(/\ temperature < 14
              /\ Len(availableOuterwear) > 0
              /\ CategoryCount(selectedItems, "outerwear") = 0)
        /\ ~(/\ temperature < 10
              /\ Len(availableColdAccessories) > 0
              /\ Len(includedColdAccessories) = 0)

\* validateMandatoryOutfitStructure without the cold-accessories rule
validateMandatoryOutfitStructure_NoAccessoryRule(itemIds, userItems, temperature) ==
    LET selectedItems == SelectedItems(itemIds, userItems)
        availableOuterwear == SelectSeq(userItems, LAMBDA item : item.category = "outerwear")
    IN  /\ ~(Len(selectedItems) < 3)
        /\ CategoryCount(selectedItems, "bottoms") # 0
        /\ CategoryCount(selectedItems, "tops") # 0
        /\ CategoryCount(selectedItems, "shoes") # 0
        /\ ~(/\ temperature < 14
              /\ Len(availableOuterwear) > 0
              /\ CategoryCount(selectedItems, "outerwear") = 0)

validateMandatoryOutfitStructure(itemIds, userItems, temperature) ==
    LET selectedItems == SelectedItems(itemIds, userItems)
        availableOuterwear == SelectSeq(userItems, LAMBDA item : item.category = "outerwear")
        availableColdAccessories ==
            SelectSeq(userItems, LAMBDA item : item.category = "accessories" /\ IsColdAccessory(item))
        includedColdAccessories ==
            SelectSeq(selectedItems, LAMBDA item : item.category = "accessories" /\ IsColdAccessory(item))
    IN  /\ ~(Len(selectedItems) < 3)
        /\ CategoryCount(selectedItems, "bottoms") # 0
        /\ CategoryCount(selectedItems, "tops") # 0
        /\ CategoryCount(selectedItems, "shoes") # 0
        /\ ~(/\ temperature < 14
              /\ Len(availableOuterwear) > 0
              /\ CategoryCount(selectedItems, "outerwear") = 0)
        /\ ~(/\ temperature < 10
              /\ Len(availableColdAccessories) > 0
              /\ Len(includedColdAccessories) = 0)

ExtremeClashes ==
    { << "neon orange", "hot pink" >>, << "bright lime", "hot magenta" >>,
      << "fluorescent yellow", "electric purple" >> }

\* selectedItems.flatMap(item => item.colors.map(c => c.toLowerCase())), as a set
UniqueColors(selectedItems) ==
    { ToLowerCase(c) : c \in Range(Flatten([ i \in DOMAIN selectedItems |-> selectedItems[i].colors ])) }

\* validateOutfitCombination with the cap on shoes lost
validateOutfitCombination_NoShoesCap(itemIds, userItems) ==
    LET selectedItems == SelectedItems(itemIds, userItems)
        count(category) == CategoryCount(selectedItems, category)
        present == { selectedItems[i].category : i \in DOMAIN selectedItems }
    IN  /\ ~(Len(selectedItems) < 2)
        /\ \A category \in present :
              /\ ~(category = "accessories" /\ count(category) > 3)
              /\ ~(category \notin { "accessories", "shoes" } /\ count(category) > 1)
        /\ ~(Cardinality(UniqueColors(selectedItems)) > 8)

\* validateOutfitCombination with the clash colours compared by equality
validateOutfitCombination_ExactClash(itemIds, userItems) ==
    LET selectedItems == SelectedItems(itemIds, userItems)
        count(category) == CategoryCount(selectedItems, category)
        present == { selectedItems[i].category : i \in DOMAIN selectedItems }
        uniqueColors == UniqueColors(selectedItems)
        lowerNames == { ToLowerCase(selectedItems[i].name) : i \in DOMAIN selectedItems }
        hasSwimwear == \E n \in lowerNames : Includes(n, "bikini") \/ Includes(n, "swimsuit")
        hasWinterCoat == \E n \in lowerNames : Includes(n, "winter coat") \/ Includes(n, "parka")
    IN  /\ ~(Len(selectedItems) < 2)
        /\ \A category \in present :
              /\ ~(category = "accessories" /\ count(category) > 3)
              /\ ~(category = "shoes" /\ count(category) > 2)
              /\ ~(category \notin { "accessories", "shoes" } /\ count(category) > 1)
        /\ ~(\E clash \in ExtremeClashes :
                clash[1] \in uniqueColors /\ clash[2] \in uniqueColors)
        /\ ~(Cardinality(uniqueColors) > 8)
        /\ ~(hasSwimwear /\ hasWinterCoat)

validateOutfitCombination(itemIds, userItems) ==
    LET selectedItems == SelectedItems(itemIds, userItems)
        count(category) == CategoryCount(selectedItems, category)
        present == { selectedItems[i].category : i \in DOMAIN selectedItems }
        hasTop == count("tops") > 0
        hasBottom == count("bottoms") > 0
        hasDress == count("dresses") > 0
        hasOuterwear == count("outerwear") > 0
        coreOutfit == hasDress \/ (hasTop /\ hasBottom)
        versatileOutfit ==
            (hasTop /\ hasOuterwear) \/ (hasBottom /\ hasOuterwear) \/ Len(selectedItems) >= 3
        minimalOutfit == Len(selectedItems) >= 2
        uniqueColors == UniqueColors(selectedItems)
        lowerNames == { ToLowerCase(selectedItems[i].name) : i \in DOMAIN selectedItems }
        hasSwimwear == \E n \in lowerNames : Includes(n, "bikini") \/ Includes(n, "swimsuit")
        hasWinterCoat == \E n \in lowerNames : Includes(n, "winter coat") \/ Includes(n, "parka")
    IN  /\ Len(selectedItems) # 0
        /\ ~(Len(selectedItems) < 2)
        /\ \A category \in present :
              /\ ~(category = "accessories" /\ count(category) > 3)
              /\ ~(category = "shoes" /\ count(category) > 2)
              /\ ~(category \notin { "accessories", "shoes" } /\ count(category) > 1)
        /\ ~(~coreOutfit /\ ~versatileOutfit /\ ~minimalOutfit)
        /\ ~(\E clash \in ExtremeClashes :
                /\ \E c \in uniqueColors : Includes(c, clash[1])
                /\ \E c \in uniqueColors : Includes(c, clash[2]))
        /\ ~(Cardinality(uniqueColors) > 8)
        /\ ~(hasSwimwear /\ hasWinterCoat)

\* ------------------------------------------------------------------------
\* Sorting and combination keys
\* ------------------------------------------------------------------------
\* Array.prototype.sort is stable: the element at i goes behind every element
\* that is before it in the order, and behind the equal ones left of it;
\* before[i][j] says that seq[i] is before seq[j] in the order
StableSort(seq, before) ==
    LET n == Len(seq)
        \* the positions 1..k in sorted order: k goes in front of the first
        \* position it is before
        order[k \in 0..n] ==
            IF k = 0 THEN << >>
            ELSE LET prev == order[k - 1]
                     p == Cardinality({ m \in DOMAIN prev : ~before[k][prev[m]] })
                 IN  SubSeq(prev, 1, p) \o << k >> \o SubSeq(prev, p + 1, k - 1)
    IN  IF \A i \in 1..(n - 1) : ~before[i + 1][i]
        THEN seq
        ELSE [ p \in 1..n |-> seq[order[n][p]] ]

\* the decimal digits of String(n), n >= 0
RECURSIVE Digits(_)
Digits(n) == IF n < 10 THEN << n >> ELSE Digits(n \div 10) \o << n % 10 >>

\* String(x) < String(y): sort() without a comparator orders its elements by
\* their string form (two single digits compare as the numbers do)
StringLess(x, y) ==
    IF x < 10 /\ y < 10 THEN x < y
    ELSE LET a == Digits(x)
             b == Digits(y)
         IN  \E k \in 1..Len(b) :
                 /\ \A m \in 1..(k - 1) : m <= Len(a) /\ a[m] = b[m]
                 /\ (k > Len(a) \/ (k <= Len(a) /\ a[k] < b[k]))

\* item_ids.sort()
SortIds(itemIds) ==
    StableSort(itemIds, [ i \in DOMAIN itemIds |->
                            [ j \in DOMAIN itemIds |-> StringLess(itemIds[i], itemIds[j]) ] ])

\* ids.join(',')
RECURSIVE Join(_)
Join(ids) ==
    IF ids = << >> THEN ""
    ELSE IF Len(ids) = 1 THEN ToString(ids[1])
    ELSE ToString(ids[1]) \o "," \o Join(Tail(ids))

\* outfit.item_ids.sort().join(',')
ItemCombo(itemIds) == Join(SortIds(itemIds))

\* item.colors[0] inside a template string
FirstColor(item) == IF item.colors = << >> THEN "undefined" ELSE item.colors[1]

\* ------------------------------------------------------------------------
\* Style names
\* ------------------------------------------------------------------------
\* styleTemplates[occasion] || styleTemplates.casual
StyleTemplates(occasion) ==
    CASE occasion = "business" ->
           << "Professional Edge", "Corporate Style", "Business Sharp", "Office Ready",
              "Executive Look", "Workplace Chic", "Business Sophisticated", "Professional Polish" >>
      [] occasion = "formal" ->
           << "Evening Elegance", "Formal Finesse", "Sophisticated Style", "Refined Look",
              "Dress-up Ready", "Special Occasion", "Polished Perfection", "Formal Grace" >>
      [] occasion = "date_night" ->
           << "Romantic Charm", "Date Night Allure", "Evening Romance", "Captivating Style",
              "Dinner Date Ready", "Night Out Chic", "Romantic Elegance", "Date Perfect" >>
      [] occasion = "sporty" ->
           << "Athletic Edge", "Sporty Chic", "Active Style", "Fitness Ready",
              "Athleisure Look", "Workout Vibes", "Sport Luxe", "Active Comfort" >>
      [] OTHER ->
           << "Weekend Comfort", "Laid-Back Style", "Casual Chic", "Effortless Look",
              "Relaxed Elegance", "Everyday Style", "Comfortable Cool", "Easy Going" >>

\* items.find(pred): the first item of a category in the set, None without one
FindCategory(items, cats) ==
    LET hits == SelectSeq(items, LAMBDA item : item.category \in cats)
    IN  IF hits = << >> THEN None ELSE Some(Head(hits))

\* generateUniqueStyleName without the usedNames test: always the pool's
\* first template
generateUniqueStyleName_IgnoresUsed(occasion, items, usedNames, random) ==
    LET template == StyleTemplates(occasion)[1]
    IN  [ name |-> template, usedNames |-> usedNames \cup { template } ]

\* the name it returns and the usedNames it leaves; random is the draw of
\* Math.floor(Math.random() * 100)
generateUniqueStyleName(occasion, items, usedNames, random) ==
    LET templates == StyleTemplates(occasion)
        free == { i \in DOMAIN templates : templates[i] \notin usedNames }
        topItem == FindCategory(items, { "tops", "dresses" })
        bottomItem == FindCategory(items, { "bottoms" })
    IN  IF free # { }
        THEN LET template == templates[CHOOSE i \in free : \A j \in free : i <= j]
             IN  [ name |-> template, usedNames |-> usedNames \cup { template } ]
        ELSE IF topItem # None /\ bottomItem # None
        THEN LET name == FirstColor(topItem[1]) \o " & " \o FirstColor(bottomItem[1])
                             \o " " \o occasion
             IN  [ name |-> name, usedNames |-> usedNames \cup { name } ]
        ELSE [ name |-> "Stylish " \o occasion \o " " \o ToString(random),
               usedNames |-> usedNames ]

\* ------------------------------------------------------------------------
\* Confidence scoring (the map callback of generateOutfitSuggestions)
\* ------------------------------------------------------------------------
\* item.aiAnalysis?.includes(word), on the JSON text of the stored object
AnalysisIncludes(item, word) ==
    /\ item.aiAnalysis # None
    /\ \/ Includes(item.aiAnalysis[1].subcategory, word)
       \/ Includes(item.aiAnalysis[1].style, word)
       \/ Includes(item.aiAnalysis[1].formality, word)
       \/ \E tag \in item.aiAnalysis[1].suitable_occasions : Includes(tag, word)
       \/ /\ item.aiAnalysis[1].weather_suitability # None
          /\ \E tag \in item.aiAnalysis[1].weather_suitability[1] : Includes(tag, word)

HasOuterwearLayer(selectedItems) ==
    \E i \in DOMAIN selectedItems :
        LET item == selectedItems[i]
        IN  \/ item.category = "outerwear"
            \/ /\ item.category = "tops"
               /\ (item.style = "business" \/ AnalysisIncludes(item, "blazer"))

\* the cold-layering step, taken when temp < 10
LayeringAdjust(confidence, selectedItems) ==
    IF ~HasOuterwearLayer(selectedItems)
    THEN Some(Max(40, OrElse(confidence, 80) - 30))
    ELSE Some(Min(100, OrElse(confidence, 80) + 10))

WeatherAppropriate(selectedItems, temp, condition) ==
    \A i \in DOMAIN selectedItems :
        LET item == selectedItems[i]
        IN  \/ item.weatherSuitability = None
            \/ /\ ~(temp < 5 /\ item.warmthLevel # 0 /\ item.warmthLevel < 2)
               /\ ~(temp > 25 /\ item.warmthLevel # 0 /\ item.warmthLevel > 2)
               /\ ~(condition = "rainy" /\ "rain" \notin item.weatherSuitability[1])

\* the weather-appropriateness step
WeatherAdjust(confidence, selectedItems, temp, condition) ==
    IF ~WeatherAppropriate(selectedItems, temp, condition)
    THEN Some(Max(50, OrElse(confidence, 80) - 20))
    ELSE Some(Min(100, OrElse(confidence, 80) + 5))

\* colors.some(color => outfitColors.some(c => c.toLowerCase().includes(color.toLowerCase())))
ColorsMatch(colors, selectedItems) ==
    LET outfitColors == Flatten([ i \in DOMAIN selectedItems |-> selectedItems[i].colors ])
    IN  \E i \in DOMAIN colors : \E j \in DOMAIN outfitColors :
            Includes(ToLowerCase(outfitColors[j]), ToLowerCase(colors[i]))

FavoriteAdjust(confidence, preferences, selectedItems) ==
    IF ColorsMatch(preferences.favoriteColors, selectedItems)
    THEN Some(Min(100, OrElse(confidence, 80) + 5))
    ELSE confidence

AvoidAdjust(confidence, preferences, selectedItems) ==
    IF ColorsMatch(preferences.avoidColors, selectedItems)
    THEN Some(Max(60, OrElse(confidence, 80) - 10))
    ELSE confidence

\* userProfile ? { ..., preferences: userProfile.preferences ? JSON.parse(...) : null } : null,
\* read as userContext?.preferences
ContextPreferences(userProfile) ==
    IF userProfile = None THEN None ELSE userProfile[1].preferences

\* outfit.confidence when the map callback returns
ScoreConfidence(confidence, selectedItems, weatherData, userProfile) ==
    LET afterLayering ==
            IF weatherData # None /\ weatherData[1].temperature < 10
            THEN LayeringAdjust(confidence, selectedItems)
            ELSE confidence
        afterWeather ==
            IF weatherData # None
            THEN WeatherAdjust(afterLayering, selectedItems, weatherData[1].temperature,
                               ToLowerCase(weatherData[1].condition))
            ELSE afterLayering
        preferences == ContextPreferences(userProfile)
        afterFavorite ==
            IF preferences # None
            THEN FavoriteAdjust(afterWeather, preferences[1], selectedItems)
            ELSE afterWeather
    IN  IF preferences # None
        THEN AvoidAdjust(afterFavorite, preferences[1], selectedItems)
        ELSE afterFavorite

\* the sort left out: the outfits in the order the map produced them
SortByConfidence_Unsorted(outfits) == outfits

\* .sort((a, b) => (b.confidence || 0) - (a.confidence || 0))
SortByConfidence(outfits) ==
    StableSort(outfits, [ a \in DOMAIN outfits |->
                            [ b \in DOMAIN outfits |->
                                OrElse(outfits[a].confidence, 0)
                                    > OrElse(outfits[b].confidence, 0) ] ])

\* array.slice(0, n)
Slice(seq, n) == SubSeq(seq, 1, Min(n, Len(seq)))

\* ------------------------------------------------------------------------
\* Shopping recommendations
\* ------------------------------------------------------------------------
\* strings.join(' or ')
RECURSIVE JoinOr(_)
JoinOr(strings) ==
    IF strings = << >> THEN ""
    ELSE IF Len(strings) = 1 THEN strings[1]
    ELSE strings[1] \o " or " \o JoinOr(Tail(strings))

\* the threshold moved: every outfit with a confidence below 95 counts as low
generateShoppingRecommendations_Below95(userId, outfits, userItems, weatherData) ==
    LET low == SelectSeq(outfits, LAMBDA outfit : outfit.confidence # None /\ outfit.confidence[1] < 95)
    IN  IF low = << >> THEN << >>
        ELSE << [ userId |-> userId, category |-> "wardrobe_gaps", lowCount |-> Len(low),
                  suggestedItems |-> << "versatile blazer or cardigan for layering" >>,
                  confidence |-> low[1].confidence[1] ] >>

\* the records it hands to storage.createShoppingRecommendation: none or one
generateShoppingRecommendations(userId, outfits, userItems, weatherData) ==
    LET lowConfidenceOutfits ==
            SelectSeq(outfits, LAMBDA outfit : outfit.confidence # None /\ outfit.confidence[1] < 70)
        userCategories == { userItems[i].category : i \in DOMAIN userItems }
        temp == weatherData[1].temperature
        condition == ToLowerCase(weatherData[1].condition)
        temperatureRecommendations ==
            IF weatherData = None THEN << >>
            ELSE IF temp < 5 THEN << "warm coat", "wool sweater", "thermal layers", "winter boots" >>
            ELSE IF temp > 25 THEN << "light cotton shirt", "shorts", "sandals", "sun hat" >>
            ELSE << >>
        weatherRecommendations ==
            temperatureRecommendations \o
            (IF weatherData # None /\ condition = "rainy"
             THEN << "waterproof jacket", "rain boots", "umbrella" >> ELSE << >>)
        userColors == UniqueColors(userItems)
        missingColors ==
            SelectSeq(<< "black", "white", "navy", "grey" >>, LAMBDA color : color \notin userColors)
        recommendations ==
            (IF "outerwear" \notin userCategories
             THEN << "versatile blazer or cardigan for layering" >> ELSE << >>)
            \o (IF "shoes" \notin userCategories
                THEN << "comfortable walking shoes or versatile flats" >> ELSE << >>)
            \o (IF Len(missingColors) > 0
                THEN << JoinOr(missingColors) \o " colored basics for versatile mixing" >>
                ELSE << >>)
            \o weatherRecommendations
        sum[k \in 0..Len(lowConfidenceOutfits)] ==
            IF k = 0 THEN 0 ELSE sum[k - 1] + lowConfidenceOutfits[k].confidence[1]
        n == Len(lowConfidenceOutfits)
    IN  IF n = 0 \/ Len(recommendations) = 0 THEN << >>
        ELSE << [ userId |-> userId,
                  category |-> "wardrobe_gaps",
                  lowCount |-> n,
                  suggestedItems |-> Slice(recommendations, 5),
                  \* Math.round(sum / n): the nearest integer, halves upwards
                  confidence |-> (2 * sum[n] + n) \div (2 * n) ] >>

\* ------------------------------------------------------------------------
\* Combinatorial fallback generator
\* ------------------------------------------------------------------------
\* the pairs with the two loops swapped: bottoms outside, tops inside
LoopPairs_BottomMajor(tops, bottoms, limit) ==
    LET nt == Min(Len(tops), limit)
        nb == Min(Len(bottoms), limit)
    IN  [ k \in 1..(nt * nb) |-> << ((k - 1) % nt) + 1, ((k - 1) \div nt) + 1 >> ]

\* the (i, j) the two nested loops visit, in order, for at most limit tops
\* and limit bottoms
LoopPairs(tops, bottoms, limit) ==
    LET nt == Min(Len(tops), limit)
        nb == Min(Len(bottoms), limit)
    IN  [ k \in 1..(nt * nb) |-> << ((k - 1) \div nb) + 1, ((k - 1) % nb) + 1 >> ]

\* the top + bottom loops without previousSuggestions.add(itemCombo)
RECURSIVE BasicPairLoop_NoAdd(_, _, _, _, _)
BasicPairLoop_NoAdd(pairs, tops, bottoms, occasion, acc) ==
    IF pairs = << >> \/ Len(acc.outfits) >= 3 THEN acc
    ELSE LET top == tops[Head(pairs)[1]]
             bottom == bottoms[Head(pairs)[2]]
             itemCombo == ItemCombo(<< top.id, bottom.id >>)
         IN  IF itemCombo \in acc.previousSuggestions
             THEN BasicPairLoop_NoAdd(Tail(pairs), tops, bottoms, occasion, acc)
             ELSE BasicPairLoop_NoAdd(Tail(pairs), tops, bottoms, occasion,
                    [ outfits |-> Append(acc.outfits,
                          [ name |-> FirstColor(top) \o " " \o top.name \o " with "
                                       \o FirstColor(bottom) \o " " \o bottom.name,
                            occasion |-> Some(IF occasion # None /\ occasion[1] # ""
                                              THEN occasion[1] ELSE "casual"),
                            item_ids |-> << top.id, bottom.id >>,
                            confidence |-> Some(75) ]),
                      previousSuggestions |-> acc.previousSuggestions ])

\* the top + bottom loops of generateBasicOutfitCombinations; both break once
\* basicOutfits holds 3 outfits
RECURSIVE BasicPairLoop(_, _, _, _, _)
BasicPairLoop(pairs, tops, bottoms, occasion, acc) ==
    IF pairs = << >> \/ Len(acc.outfits) >= 3 THEN acc
    ELSE LET top == tops[Head(pairs)[1]]
             bottom == bottoms[Head(pairs)[2]]
             itemCombo == ItemCombo(<< top.id, bottom.id >>)
         IN  IF itemCombo \in acc.previousSuggestions
             THEN BasicPairLoop(Tail(pairs), tops, bottoms, occasion, acc)
             ELSE BasicPairLoop(Tail(pairs), tops, bottoms, occasion,
                    [ outfits |-> Append(acc.outfits,
                          [ name |-> FirstColor(top) \o " " \o top.name \o " with "
                                       \o FirstColor(bottom) \o " " \o bottom.name,
                            occasion |-> Some(IF occasion # None /\ occasion[1] # ""
                                              THEN occasion[1] ELSE "casual"),
                            item_ids |-> << top.id, bottom.id >>,
                            confidence |-> Some(75) ]),
                      previousSuggestions |-> acc.previousSuggestions \cup { itemCombo } ])

\* the dress loop of generateBasicOutfitCombinations
RECURSIVE BasicDressLoop(_, _)
BasicDressLoop(dresses, acc) ==
    IF dresses = << >> THEN acc
    ELSE LET dress == Head(dresses)
             itemCombo == ItemCombo(<< dress.id >>)
         IN  IF itemCombo \in acc.previousSuggestions
             THEN BasicDressLoop(Tail(dresses), acc)
             ELSE BasicDressLoop(Tail(dresses),
                    [ outfits |-> Append(acc.outfits,
                          [ name |-> "Elegant " \o FirstColor(dress) \o " Dress",
                            occasion |-> Some("formal"),
                            item_ids |-> << dress.id >>,
                            confidence |-> Some(80) ]),
                      previousSuggestions |-> acc.previousSuggestions \cup { itemCombo } ])

\* generateBasicOutfitCombinations without the final slice(0, 3)
generateBasicOutfitCombinations_NoSlice(userItems, previousSuggestions, occasion) ==
    LET tops == SelectSeq(userItems, LAMBDA item : item.category = "tops")
        bottoms == SelectSeq(userItems, LAMBDA item : item.category = "bottoms")
        dresses == SelectSeq(userItems, LAMBDA item : item.category = "dresses")
        paired == BasicPairLoop(LoopPairs(tops, bottoms, 2), tops, bottoms, occasion,
                                [ outfits |-> << >>, previousSuggestions |-> previousSuggestions ])
    IN  BasicDressLoop(Slice(dresses, 2), paired)

\* the outfits it returns and the previousSuggestions it leaves
generateBasicOutfitCombinations(userItems, previousSuggestions, occasion) ==
    LET tops == SelectSeq(userItems, LAMBDA item : item.category = "tops")
        bottoms == SelectSeq(userItems, LAMBDA item : item.category = "bottoms")
        dresses == SelectSeq(userItems, LAMBDA item : item.category = "dresses")
        paired == BasicPairLoop(LoopPairs(tops, bottoms, 2), tops, bottoms, occasion,
                                [ outfits |-> << >>, previousSuggestions |-> previousSuggestions ])
        dressed == BasicDressLoop(Slice(dresses, 2), paired)
    IN  [ outfits |-> Slice(dressed.outfits, 3),
          previousSuggestions |-> dressed.previousSuggestions ]

\* ------------------------------------------------------------------------
\* Occasion and weather filters of generateOutfitSuggestions
\* ------------------------------------------------------------------------
\* item.aiAnalysis ? JSON.parse(item.aiAnalysis) : {}
Analysis(item) ==
    IF item.aiAnalysis # None THEN item.aiAnalysis[1] ELSE AnalysisObject("", "", None, { })

\* `${item.name} ${item.category}`.toLowerCase().includes(word), for a word
\* without a blank
TextIncludes(item, word) ==
    Includes(ToLowerCase(item.name), word) \/ Includes(ToLowerCase(item.category), word)

IsAthletic(item) ==
    \/ \E word \in { "athletic", "sport", "gym", "adidas", "nike" } : TextIncludes(item, word)
    \/ item.style = "sporty"
    \/ Analysis(item).style = "sporty"

\* one entry of wardrobeAnalysis: the item with its subcategory replaced by
\* analysis.subcategory || item.category and its weatherSuitability by
\* analysis.weather_suitability || ['mild'], with isAthletic and with the
\* parsed analysis
AnalysedItem(item) ==
    [ subcategory |->
          IF Analysis(item).subcategory # "" THEN Analysis(item).subcategory
          ELSE item.category,
      weatherSuitability |->
          Some(IF Analysis(item).weather_suitability # None
               THEN Analysis(item).weather_suitability[1] ELSE { "mild" }),
      isAthletic |-> IsAthletic(item),
      analysis |-> Analysis(item) ] @@ item

wardrobeAnalysis(userItems) == [ i \in DOMAIN userItems |-> AnalysedItem(userItems[i]) ]

\* the callback of occasionFilteredItems on an entry of wardrobeAnalysis
OccasionSuits(item, occasion) ==
    LET analysis == item.analysis
        itemStyle == IF item.style = "" THEN "casual" ELSE ToLowerCase(item.style)
        itemCategory == ToLowerCase(item.category)
        itemName == ToLowerCase(item.name)
        subcategory == analysis.subcategory
        suitableOccasions == analysis.suitable_occasions
        isBusinessSuitable ==
            \E keyword \in { "business", "formal", "professional", "blazer", "suit",
                              "dress_shoes" } :
                \/ Includes(itemStyle, keyword)
                \/ Includes(subcategory, keyword)
                \/ "business" \in suitableOccasions
                \/ "work" \in suitableOccasions
        versatileForBusiness ==
            \/ /\ itemCategory = "tops"
               /\ ~Includes(subcategory, "t_shirt")
               /\ ~item.isAthletic
            \/ /\ itemCategory = "bottoms"
               /\ (Includes(subcategory, "chinos") \/ Includes(subcategory, "dress_pants"))
            \/ /\ itemCategory = "shoes"
               /\ ~Includes(subcategory, "sneakers")
               /\ ~item.isAthletic
            \/ /\ itemCategory = "accessories"
               /\ (subcategory = "belt" \/ subcategory = "watch")
    IN  IF occasion = None \/ occasion = Some("") \/ occasion = Some("casual")
        THEN ~Includes(itemName, "tuxedo") /\ analysis.style # "very_formal"
        ELSE IF occasion[1] \in { "sporty", "athletic" }
        THEN \/ item.isAthletic
             \/ itemStyle = "sporty"
             \/ "gym" \in suitableOccasions
             \/ "athletic" \in suitableOccasions
             \/ Includes(subcategory, "athletic")
             \/ subcategory = "tank_top"
        ELSE IF occasion[1] \in { "business", "business_casual" }
        THEN isBusinessSuitable \/ versatileForBusiness
        ELSE IF occasion[1] = "formal"
        THEN \E keyword \in { "formal", "dress", "suit", "blazer", "heels", "dress_shoes" } :
                 \/ Includes(itemStyle, keyword)
                 \/ Includes(subcategory, keyword)
                 \/ "formal" \in suitableOccasions
                 \/ analysis.formality = "formal"
        ELSE IF occasion[1] = "date_night"
        THEN /\ ~item.isAthletic
             /\ analysis.style # "very_casual"
             /\ ~Includes(subcategory, "gym")
             /\ "gym" \notin suitableOccasions
        ELSE TRUE

occasionFilteredItems(analysed, occasion) ==
    SelectSeq(analysed, LAMBDA item : OccasionSuits(item, occasion))

\* the callback of weatherSuitableItems on an entry of occasionFilteredItems
WeatherSuits(item, temp, condition) ==
    \/ item.weatherSuitability = None
    \/ /\ ~(temp < 5 /\ "cold" \notin item.weatherSuitability[1])
       /\ ~(temp > 25 /\ "sun" \notin item.weatherSuitability[1])
       /\ ~(condition = "rainy" /\ "rain" \notin item.weatherSuitability[1])

weatherSuitableItems(filtered, weatherData) ==
    IF weatherData = None THEN filtered
    ELSE SelectSeq(filtered,
             LAMBDA item : WeatherSuits(item, weatherData[1].temperature,
                                        ToLowerCase(weatherData[1].condition)))

\* ------------------------------------------------------------------------
\* generateOutfitSuggestions
\* ------------------------------------------------------------------------
\* a stylist call ends in one of: a thrown quota error (status 429, 'quota',
\* 'Too Many Requests'), any other thrown error, a text without parseable
\* JSON, or a parsed object whose outfits are the given raw outfits
StylistKinds == { "quota", "error", "unparseable", "outfits" }

\* the .filter callback: item_ids present with 2 entries or more, combination
\* not suggested before, composition valid
AcceptsOutfit(outfit, previousSuggestions, userItems) ==
    /\ ~(Len(outfit.item_ids) < 2)
    /\ ItemCombo(outfit.item_ids) \notin previousSuggestions
    /\ validateOutfitCombination(outfit.item_ids, userItems)

\* the .map callback over the accepted outfits, in order: usedNames is shared
\* by the batch, randoms[k] is the draw a rename of the k-th outfit would use
RECURSIVE MapOutfits(_, _, _, _, _, _, _)
MapOutfits(outfits, k, userItems, weatherData, userProfile, randoms, acc) ==
    IF k > Len(outfits) THEN acc
    ELSE LET outfit == outfits[k]
             sortedIds == SortIds(outfit.item_ids)
             selectedItems == SelectedItems(sortedIds, userItems)
             renamed == generateUniqueStyleName(
                            IF outfit.occasion # None /\ outfit.occasion[1] # ""
                            THEN outfit.occasion[1] ELSE "casual",
                            selectedItems, acc.usedNames, randoms[k])
             collides == outfit.name \in acc.usedNames
             mapped == [ outfit EXCEPT
                           !.item_ids = sortedIds,
                           !.name = IF collides THEN renamed.name ELSE outfit.name,
                           !.confidence = ScoreConfidence(outfit.confidence, selectedItems,
                                                          weatherData, userProfile) ]
             usedNames == IF collides THEN renamed.usedNames
                          ELSE acc.usedNames \cup { outfit.name }
         IN  MapOutfits(outfits, k + 1, userItems, weatherData, userProfile, randoms,
                 [ outfits |-> Append(acc.outfits, mapped),
                   usedNames |-> usedNames,
                   \* what the naming step saw and did, kept for the properties
                   naming |-> Append(acc.naming,
                                [ given |-> outfit.name, occasion |-> outfit.occasion,
                                  used |-> acc.usedNames, name |-> mapped.name,
                                  registered |-> usedNames ]) ])

\* the inline fallback of generateOutfitSuggestions: both loops break once
\* fallbackOutfits holds 2 outfits
RECURSIVE InlineFallbackLoop(_, _, _, _)
InlineFallbackLoop(pairs, tops, bottoms, acc) ==
    IF pairs = << >> \/ Len(acc.outfits) >= 2 THEN acc
    ELSE LET top == tops[Head(pairs)[1]]
             bottom == bottoms[Head(pairs)[2]]
             itemCombo == ItemCombo(<< top.id, bottom.id >>)
         IN  IF itemCombo \in acc.previousSuggestions
             THEN InlineFallbackLoop(Tail(pairs), tops, bottoms, acc)
             ELSE InlineFallbackLoop(Tail(pairs), tops, bottoms,
                    [ outfits |-> Append(acc.outfits,
                          [ name |-> FirstColor(top) \o " & " \o FirstColor(bottom)
                                       \o " Casual Look",
                            occasion |-> Some("casual"),
                            item_ids |-> << top.id, bottom.id >>,
                            confidence |-> Some(75) ]),
                      previousSuggestions |-> acc.previousSuggestions \cup { itemCombo } ])

\* the body of generateOutfitSuggestions once the owner's history exists.
\* It yields the returned outfits, the history it leaves, whether genAI is
\* initialised afterwards, the shopping records it stored, the outfits
\* accepted before sorting and truncation, the log of their naming,
\* whether it went through generateBasicOutfitCombinations, and the ranked
\* outfits it handed to generateShoppingRecommendations.
SuggestWithHistory(userId, userItems, previousSuggestions, hasGenAI, apiKey, stylist, occasion, weatherData, userProfile, randoms) ==
    LET nothing == [ outfits |-> << >>, previousSuggestions |-> previousSuggestions,
                     genAI |-> hasGenAI \/ apiKey, recommendations |-> << >>,
                     accepted |-> << >>, naming |-> << >>, basic |-> FALSE,
                     ranked |-> << >> ]
        filtered == SelectSeq(stylist.outfits,
                        LAMBDA outfit : AcceptsOutfit(outfit, previousSuggestions, userItems))
        mapped == MapOutfits(filtered, 1, userItems, weatherData, userProfile, randoms,
                             [ outfits |-> << >>, usedNames |-> { }, naming |-> << >> ])
        tracked == previousSuggestions \cup
                       { ItemCombo(filtered[k].item_ids) : k \in DOMAIN filtered }
        validOutfits == Slice(SortByConfidence(mapped.outfits), 5)
        recommendations == generateShoppingRecommendations(userId, validOutfits, userItems,
                                                           weatherData)
        tops == SelectSeq(userItems, LAMBDA item : item.category = "tops")
        bottoms == SelectSeq(userItems, LAMBDA item : item.category = "bottoms")
        fallback == InlineFallbackLoop(LoopPairs(tops, bottoms, 2), tops, bottoms,
                        [ outfits |-> << >>, previousSuggestions |-> tracked ])
        basic == generateBasicOutfitCombinations(userItems, previousSuggestions, occasion)
    IN  IF ~hasGenAI /\ ~apiKey
        THEN [ nothing EXCEPT !.genAI = FALSE ]
        ELSE IF stylist.kind = "quota"
        THEN [ nothing EXCEPT !.outfits = basic.outfits,
                              !.previousSuggestions = basic.previousSuggestions,
                              !.basic = TRUE ]
        ELSE IF stylist.kind \in { "error", "unparseable" }
        THEN nothing
        ELSE IF Len(validOutfits) = 0 /\ Len(userItems) >= 2
        THEN [ nothing EXCEPT !.outfits = fallback.outfits,
                              !.previousSuggestions = fallback.previousSuggestions,
                              !.recommendations = recommendations,
                              !.ranked = validOutfits ]
        ELSE [ nothing EXCEPT !.outfits = validOutfits,
                              !.previousSuggestions = tracked,
                              !.recommendations = recommendations,
                              !.accepted = mapped.outfits,
                              !.naming = mapped.naming,
                              !.ranked = validOutfits ]

\* ------------------------------------------------------------------------
\* Rate limiter
\* ------------------------------------------------------------------------
maxRequests == 14

timeWindow == 60000

\* the records kept whatever the limiter answers: a denied request too is
\* pushed
canMakeRequest_PushAlways(requests, now) ==
    LET recent == SelectSeq(requests, LAMBDA time : now - time < timeWindow)
    IN  [ granted |-> Len(recent) < maxRequests, requests |-> Append(recent, now) ]

\* RateLimiter.canMakeRequest at time now: whether it grants, and the
\* request times it keeps
canMakeRequest(requests, now) ==
    LET recent == SelectSeq(requests, LAMBDA time : now - time < timeWindow)
    IN  IF Len(recent) < maxRequests
        THEN [ granted |-> TRUE, requests |-> Append(recent, now) ]
        ELSE [ granted |-> FALSE, requests |-> recent ]

\* ------------------------------------------------------------------------
\* Classifier
\* ------------------------------------------------------------------------
\* a classifier call ends in a parsed analysis, in a text without parseable
\* JSON, or in a thrown error (quota or other)
ClassifierKinds == { "analysis", "unparseable", "error" }

\* analyzeClothingImage: the analysis it returns (None for null, "parsed"
\* for the normalised answer, "fallback" for the fixed analysis of the parse
\* catch), whether genAI is initialised afterwards, the request times the
\* limiter keeps, whether it asked the limiter and whether that granted
analyzeClothingImage(hasGenAI, key, requests, now, classifier) ==
    LET limiter == canMakeRequest(requests, now)
    IN  IF ~hasGenAI /\ ~key
        THEN [ analysis |-> None, genAI |-> FALSE, requests |-> requests,
               asked |-> FALSE, granted |-> FALSE ]
        ELSE IF ~limiter.granted
        THEN [ analysis |-> None, genAI |-> TRUE, requests |-> limiter.requests,
               asked |-> TRUE, granted |-> FALSE ]
        ELSE [ analysis |-> CASE classifier = "analysis" -> Some("parsed")
                              [] classifier = "unparseable" -> Some("fallback")
                              [] OTHER -> None,
               genAI |-> TRUE, requests |-> limiter.requests,
               asked |-> TRUE, granted |-> TRUE ]

\* the fields an upload or a retry writes from an analysis of a garment of
\* this kind: category, subcategory, style and colours of the analysis, or
\* the defaults of the route where the analysis is null or has none
AnalysedFields(analysis, kind, category, style) ==
    CASE analysis = Some("parsed") ->
           [ category |-> Garment(kind).category, subcategory |-> Garment(kind).subcategory,
             style |-> Garment(kind).style, colors |-> Garment(kind).colors ]
      [] analysis = Some("fallback") ->
           [ category |-> "other", subcategory |-> "", style |-> "casual",
             colors |-> << "unknown" >> ]
      [] OTHER ->
           [ category |-> category, subcategory |-> "", style |-> style, colors |-> << >> ]

\* ------------------------------------------------------------------------
\* generateAdvancedOutfitSuggestions
\* ------------------------------------------------------------------------
\* the first filter of the parsed outfits: bottoms, tops and shoes present,
\* three resolved items or more
AdvancedStructureOk(outfit, userItems) ==
    LET selectedItems == SelectedItems(outfit.item_ids, userItems)
    IN  /\ CategoryCount(selectedItems, "bottoms") > 0
        /\ CategoryCount(selectedItems, "tops") > 0
        /\ CategoryCount(selectedItems, "shoes") > 0
        /\ Len(selectedItems) >= 3

\* the second filter: every id is the id of an item of the owner
AdvancedIdsKnown(outfit, userItems) ==
    \A k \in DOMAIN outfit.item_ids :
        \E i \in DOMAIN userItems : userItems[i].id = outfit.item_ids[k]

\* the returned outfits, whether genAI is initialised afterwards, the
\* request times the limiter keeps, whether the outfits are the stylist's,
\* whether it went through generateBasicOutfitCombinations and whether the
\* limiter granted its request
generateAdvancedOutfitSuggestions(userItems, hasGenAI, apiKey, requests, now, stylist, occasion) ==
    LET basic == generateBasicOutfitCombinations(userItems, { }, occasion).outfits
        limiter == canMakeRequest(requests, now)
        structurallyValidOutfits ==
            SelectSeq(stylist.outfits, LAMBDA outfit : AdvancedStructureOk(outfit, userItems))
        validatedOutfits ==
            SelectSeq(structurallyValidOutfits,
                      LAMBDA outfit : AdvancedIdsKnown(outfit, userItems))
    IN  IF ~hasGenAI /\ ~apiKey
        THEN [ outfits |-> basic, genAI |-> FALSE, requests |-> requests, composed |-> FALSE,
               basic |-> TRUE, granted |-> FALSE ]
        ELSE IF ~limiter.granted
        THEN [ outfits |-> basic, genAI |-> TRUE, requests |-> limiter.requests,
               composed |-> FALSE, basic |-> TRUE, granted |-> FALSE ]
        ELSE IF Len(userItems) = 0
        THEN [ outfits |-> << >>, genAI |-> TRUE, requests |-> limiter.requests,
               composed |-> FALSE, basic |-> FALSE, granted |-> TRUE ]
        ELSE IF stylist.kind = "outfits" /\ Len(validatedOutfits) > 0
        THEN [ outfits |-> validatedOutfits, genAI |-> TRUE, requests |-> limiter.requests,
               composed |-> TRUE, basic |-> FALSE, granted |-> TRUE ]
        ELSE [ outfits |-> basic, genAI |-> TRUE, requests |-> limiter.requests,
               composed |-> FALSE, basic |-> TRUE, granted |-> TRUE ]

\* ------------------------------------------------------------------------
\* State
\* ------------------------------------------------------------------------
VARIABLES
    clothingItems,            \* MemStorage.clothingItems, in insertion order
    currentClothingItemId,    \* MemStorage.currentClothingItemId: the id of the next item
    shoppingRecommendations,  \* MemStorage.shoppingRecommendations
    userSuggestionHistory,    \* the module-level Map: owner id -> set of combination keys
    genAI,                    \* whether the module-level genAI client is initialised
    apiKey,                   \* whether process.env.GOOGLE_API_KEY is set
    apiRateLimiter,           \* RateLimiter.requests of the module-level limiter
    now,                      \* Date.now()
    granted,                  \* the times of every grant of the limiter so far
    pendingRetries,           \* the setImmediate callbacks of uploads not yet run
    calls,                    \* the suggestion calls started one by one: where each waits
    returned,                 \* per finished suggestion call: who asked what and the keys returned
    last                      \* the last finished call: its inputs and what it returned

vars == << clothingItems, currentClothingItemId, shoppingRecommendations,
           userSuggestionHistory, genAI, apiKey, apiRateLimiter, now, granted,
           pendingRetries, calls, returned, last >>

DEMO_USER_ID == 1

\* a new Set on every request, whatever the Map holds for the owner
HistoryOf_AlwaysNew(history, userId) == { }

\* userSuggestionHistory.get(userId), the empty set before the first request
HistoryOf(history, userId) == IF userId \in DOMAIN history THEN history[userId] ELSE { }

\* the combination keys of a list of outfits
CombosOf(outfits) == { ItemCombo(outfits[k].item_ids) : k \in DOMAIN outfits }

\* ------------------------------------------------------------------------
\* Operations
\* ------------------------------------------------------------------------
\* the state a call of generateOutfitSuggestions leaves: userItems is the
\* wardrobe it read, before the owner's history at the call, r what its body
\* yields
EndGenerateOutfitSuggestions(userId, occasion, weatherData, userProfile, stylist, userItems, before, r) ==
    LET short == Len(userItems) < 2
        outfits == IF short THEN << >> ELSE r.outfits
        \* the two filters run once genAI exists, before the stylist is called
        filters == ~short /\ (genAI \/ apiKey)
        occasionFiltered == occasionFilteredItems(wardrobeAnalysis(userItems), occasion)
    IN  /\ Len(returned) < MaxCalls
        /\ userSuggestionHistory' =
               IF short THEN userSuggestionHistory
               ELSE [ u \in DOMAIN userSuggestionHistory \cup { userId } |->
                        IF u = userId THEN r.previousSuggestions
                        ELSE userSuggestionHistory[u] ]
        /\ genAI' = IF short THEN genAI ELSE r.genAI
        /\ shoppingRecommendations' =
               IF short THEN shoppingRecommendations
               ELSE shoppingRecommendations \o r.recommendations
        /\ returned' = Append(returned, [ fn |-> "generateOutfitSuggestions", userId |-> userId,
                                          occasion |-> occasion, combos |-> CombosOf(outfits) ])
        /\ last' = [ fn |-> "generateOutfitSuggestions", userId |-> userId,
                     occasion |-> occasion, weatherData |-> weatherData,
                     userProfile |-> userProfile,
                     stylist |-> IF genAI \/ apiKey THEN stylist.kind ELSE "no_api_key",
                     raw |-> stylist.outfits,
                     userItems |-> userItems, before |-> before,
                     accepted |-> IF short THEN << >> ELSE r.accepted,
                     naming |-> IF short THEN << >> ELSE r.naming,
                     composed |-> ~short /\ r.accepted # << >>,
                     basic |-> ~short /\ r.basic,
                     ranked |-> IF short THEN << >> ELSE r.ranked,
                     occasionFilteredItems |->
                         IF filters THEN Some(IdsOf(occasionFiltered)) ELSE None,
                     weatherSuitableItems |->
                         IF filters
                         THEN Some(IdsOf(weatherSuitableItems(occasionFiltered, weatherData)))
                         ELSE None,
                     outfits |-> outfits ]
        /\ UNCHANGED << clothingItems, currentClothingItemId, apiKey, apiRateLimiter, now,
                        granted, pendingRetries, calls >>

\* generateOutfitSuggestions(userId, occasion, weatherData, userProfile); the
\* stylist's answer and the random draws are the inputs it gets on the way
GenerateOutfitSuggestions(userId, occasion, weatherData, userProfile, stylist, randoms) ==
    EndGenerateOutfitSuggestions(userId, occasion, weatherData, userProfile, stylist,
        getClothingItems(clothingItems, userId),
        HistoryOf(userSuggestionHistory, userId),
        SuggestWithHistory(userId, getClothingItems(clothingItems, userId),
                           HistoryOf(userSuggestionHistory, userId), genAI, apiKey, stylist,
                           occasion, weatherData, userProfile, randoms))

\* the state a GET /api/outfits/suggestions request leaves: userItems is the
\* demo owner's wardrobe, r what generateAdvancedOutfitSuggestions yields
EndSuggestionsRoute(occasion, weatherData, stylist, userItems, r) ==
    /\ Len(returned) < MaxCalls
    /\ genAI' = r.genAI
    /\ apiRateLimiter' = r.requests
    /\ returned' = Append(returned, [ fn |-> "suggestions", userId |-> DEMO_USER_ID,
                                      occasion |-> occasion, combos |-> CombosOf(r.outfits) ])
    /\ last' = [ fn |-> "suggestions", userId |-> DEMO_USER_ID,
                 occasion |-> occasion, weatherData |-> weatherData,
                 userProfile |-> None,
                 stylist |-> IF ~genAI /\ ~apiKey THEN "no_api_key"
                             ELSE IF ~canMakeRequest(apiRateLimiter, now).granted
                             THEN "rate_limited" ELSE stylist.kind,
                 raw |-> stylist.outfits,
                 userItems |-> userItems, before |-> { },
                 accepted |-> IF r.composed THEN r.outfits ELSE << >>,
                 naming |-> << >>,
                 composed |-> r.composed,
                 basic |-> r.basic,
                 outfits |-> r.outfits ]
    /\ granted' = IF r.granted THEN Append(granted, now) ELSE granted
    /\ UNCHANGED << clothingItems, currentClothingItemId, shoppingRecommendations,
                    userSuggestionHistory, apiKey, now, pendingRetries, calls >>

\* GET /api/outfits/suggestions
SuggestionsRoute(occasion, weatherData, stylist) ==
    EndSuggestionsRoute(occasion, weatherData, stylist,
        getClothingItems(clothingItems, DEMO_USER_ID),
        generateAdvancedOutfitSuggestions(getClothingItems(clothingItems, DEMO_USER_ID),
                                          genAI, apiKey, apiRateLimiter, now, stylist, occasion))

\* one call of a validator on a candidate's ids and the owner's items
ValidateOutfitCombination(itemIds, userItems) ==
    /\ last.fn = "none"
    /\ last' = [ fn |-> "validateOutfitCombination", itemIds |-> itemIds,
                 userItems |-> userItems,
                 valid |-> validateOutfitCombination(itemIds, userItems) ]
    /\ UNCHANGED << clothingItems, currentClothingItemId, shoppingRecommendations,
                    userSuggestionHistory, genAI, apiKey, apiRateLimiter, now, granted,
                    pendingRetries, returned, calls >>

ValidateMandatoryOutfitStructure(itemIds, userItems, temperature) ==
    /\ last.fn = "none"
    /\ last' = [ fn |-> "validateMandatoryOutfitStructure", itemIds |-> itemIds,
                 userItems |-> userItems, temperature |-> temperature,
                 valid |-> validateMandatoryOutfitStructure(itemIds, userItems, temperature) ]
    /\ UNCHANGED << clothingItems, currentClothingItemId, shoppingRecommendations,
                    userSuggestionHistory, genAI, apiKey, apiRateLimiter, now, granted,
                    pendingRetries, returned, calls >>

\* the grants of one handler, appended to the log
Grants(answers) == [ k \in 1..Len(SelectSeq(answers, LAMBDA a : a.granted)) |-> now ]

\* a classifier call that is not made
NoCall(hasGenAI, requests) ==
    [ analysis |-> None, genAI |-> hasGenAI, requests |-> requests,
      asked |-> FALSE, granted |-> FALSE ]

\* the state a POST /api/clothing-items request leaves: compared is the
\* classifier call of checkForDuplicateImage, analysed the call of the route
EndUploadClothingItem(kind, duplicate, compared, analysed) ==
    LET rejected == \/ duplicate \in { "name", "hash" }
                    \/ duplicate = "features" /\ compared.analysis = Some("parsed")
        analysis == IF rejected THEN NoCall(compared.genAI, compared.requests) ELSE analysed
        fields == AnalysedFields(analysis.analysis, kind, "unprocessed", "pending")
        \* the route sets isVerified to !!analysis, warmthLevel and
        \* weatherSuitability to null; MemStorage.createClothingItem then
        \* stores isVerified false and aiAnalysis null
        item == [ ClothingItem(currentClothingItemId, DEMO_USER_ID, kind) EXCEPT
                    !.category = fields.category, !.subcategory = fields.subcategory,
                    !.style = fields.style, !.colors = fields.colors,
                    !.warmthLevel = 0, !.weatherSuitability = None,
                    !.aiAnalysis = None, !.isVerified = FALSE ]
    IN  /\ clothingItems' = IF rejected THEN clothingItems ELSE Append(clothingItems, item)
        /\ currentClothingItemId' =
               IF rejected THEN currentClothingItemId ELSE currentClothingItemId + 1
        /\ genAI' = analysis.genAI
        /\ apiRateLimiter' = analysis.requests
        /\ granted' = granted \o Grants(<< compared, analysis >>)
        /\ pendingRetries' =
               IF ~rejected /\ analysis.analysis = None
               THEN pendingRetries \cup { [ id |-> currentClothingItemId, kind |-> kind ] }
               ELSE pendingRetries
        /\ last' = [ fn |-> "uploadClothingItem", stored |-> ~rejected,
                     id |-> currentClothingItemId,
                     analysis |-> analysis.analysis,
                     asked |-> compared.asked \/ analysis.asked,
                     denied |-> \/ compared.asked /\ ~compared.granted
                                \/ analysis.asked /\ ~analysis.granted ]
        /\ UNCHANGED << shoppingRecommendations, userSuggestionHistory, apiKey, now,
                        returned, calls >>

\* the classifier call of checkForDuplicateImage: made once the name checks
\* and the hash comparison found nothing and genAI is initialised
ComparedAnalysis(duplicate, classifier) ==
    IF duplicate \notin { "name", "hash" } /\ genAI
    THEN analyzeClothingImage(genAI, apiKey, apiRateLimiter, now, classifier)
    ELSE NoCall(genAI, apiRateLimiter)

\* POST /api/clothing-items with the image of a garment of this kind. The
\* duplicate checks compare file names, image hashes and analysed features,
\* which the model does not hold: duplicate says which of them finds the
\* upload in the wardrobe ("none" when none does). classifiers are the ends
\* of the classifier calls of the duplicate check and of the route.
UploadClothingItem(kind, duplicate, classifiers) ==
    EndUploadClothingItem(kind, duplicate,
        ComparedAnalysis(duplicate, classifiers[1]),
        analyzeClothingImage(ComparedAnalysis(duplicate, classifiers[1]).genAI, apiKey,
                             ComparedAnalysis(duplicate, classifiers[1]).requests, now,
                             classifiers[2]))

\* the state the setImmediate callback of an upload leaves: retried is its
\* classifier call
EndRetryAnalysis(retry, retried) ==
    LET fields == AnalysedFields(retried.analysis, retry.kind, "other", "casual")
        update(item) ==
            IF item.id = retry.id /\ retried.analysis # None
            THEN [ item EXCEPT
                     !.category = fields.category, !.subcategory = fields.subcategory,
                     !.style = fields.style, !.colors = fields.colors,
                     !.aiAnalysis = Some(AnalysisObject(fields.subcategory, fields.style,
                                                        None, { })),
                     !.isVerified = TRUE ]
            ELSE item
    IN  /\ clothingItems' = [ i \in DOMAIN clothingItems |-> update(clothingItems[i]) ]
        /\ genAI' = retried.genAI
        /\ apiRateLimiter' = retried.requests
        /\ granted' = granted \o Grants(<< retried >>)
        /\ pendingRetries' = pendingRetries \ { retry }
        /\ last' = [ fn |-> "retryAnalysis", id |-> retry.id,
                     analysis |-> retried.analysis,
                     asked |-> retried.asked,
                     denied |-> retried.asked /\ ~retried.granted ]
        /\ UNCHANGED << currentClothingItemId, shoppingRecommendations,
                        userSuggestionHistory, apiKey, now, returned, calls >>

\* the setImmediate callback an upload schedules when its analysis is null
RetryAnalysis(retry, classifier) ==
    /\ retry \in pendingRetries
    /\ EndRetryAnalysis(retry,
           analyzeClothingImage(genAI, apiKey, apiRateLimiter, now, classifier))

\* the clock moves on
Tick(time) ==
    /\ time > now
    /\ now' = time
    /\ UNCHANGED << clothingItems, currentClothingItemId, shoppingRecommendations,
                    userSuggestionHistory, genAI, apiKey, apiRateLimiter, granted,
                    pendingRetries, returned, last, calls >>

\* DELETE /api/clothing-items/:id: 404 when no item has the id, whoever owns it
DeleteClothingItem(id) ==
    /\ clothingItems' = SelectSeq(clothingItems, LAMBDA item : item.id # id)
    /\ last' = [ fn |-> "deleteClothingItem",
                 found |-> \E i \in DOMAIN clothingItems : clothingItems[i].id = id ]
    /\ UNCHANGED << currentClothingItemId, shoppingRecommendations, userSuggestionHistory,
                    genAI, apiKey, apiRateLimiter, now, granted, pendingRetries, returned,
                    calls >>

\* DELETE /api/clothing-items: the demo owner's items go
DeleteAllClothingItems ==
    /\ clothingItems' = SelectSeq(clothingItems, LAMBDA item : item.userId # DEMO_USER_ID)
    /\ last' = [ fn |-> "deleteAllClothingItems",
                 found |-> getClothingItems(clothingItems, DEMO_USER_ID) # << >> ]
    /\ UNCHANGED << currentClothingItemId, shoppingRecommendations, userSuggestionHistory,
                    genAI, apiKey, apiRateLimiter, now, granted, pendingRetries, returned,
                    calls >>

\* POST /api/shopping/analyze: one mock outfit of confidence 65 and the
\* weather fetchWeatherData gave
ShoppingAnalyze(weatherData) ==
    LET userItems == getClothingItems(clothingItems, DEMO_USER_ID)
        mockOutfits == << [ confidence |-> Some(65), item_ids |-> << >> ] >>
    IN  /\ shoppingRecommendations' =
               shoppingRecommendations
                   \o generateShoppingRecommendations(DEMO_USER_ID, mockOutfits, userItems,
                                                      weatherData)
        /\ last' = [ fn |-> "shoppingAnalyze", userItems |-> userItems,
                     weatherData |-> weatherData, ranked |-> mockOutfits ]
        /\ UNCHANGED << clothingItems, currentClothingItemId, userSuggestionHistory, genAI,
                        apiKey, apiRateLimiter, now, granted, pendingRetries, returned,
                        calls >>

\* ------------------------------------------------------------------------
\* Suggestion calls that interleave at their awaits
\* ------------------------------------------------------------------------
\* the calls that have started and not returned
Running == { p \in DOMAIN calls : calls[p].pc # "done" }

\* the calls with one of them moved on
CallsWith(p, call) == [ q \in DOMAIN calls |-> IF q = p THEN call ELSE calls[q] ]

\* the history with the owner's Set replaced
HistoryWith(userId, previousSuggestions) ==
    [ u \in DOMAIN userSuggestionHistory \cup { userId } |->
        IF u = userId THEN previousSuggestions ELSE userSuggestionHistory[u] ]

\* what generateAdvancedOutfitSuggestions yields for a call: genAI, limiter
\* and clock as they were when it started, the wardrobe it read later
AdvancedOf(call, userItems, stylist) ==
    generateAdvancedOutfitSuggestions(userItems, call.hasGenAI, apiKey, call.requests,
                                      call.now, stylist, call.occasion)

\* what generateOutfitSuggestions yields for a call on the wardrobe it read
\* and the history as it is now
SuggestOf(call, stylist) ==
    SuggestWithHistory(call.userId, call.userItems,
                       HistoryOf(userSuggestionHistory, call.userId), TRUE, apiKey, stylist,
                       call.occasion, None, None, << 0, 0 >>)

\* a call returns these outfits
Done(call, outfits) == [ call EXCEPT !.pc = "done", !.outfits = outfits ]

\* a call of generateOutfitSuggestions ("generateOutfitSuggestions") or of
\* generateAdvancedOutfitSuggestions ("suggestions") starts and runs to its
\* first await, storage.getClothingItems; the advanced one initialises
\* genAI and asks the limiter before it
StartCall(fn, userId, occasion) ==
    LET p == Len(calls) + 1
        asks == fn = "suggestions" /\ (genAI \/ apiKey)
        limiter == canMakeRequest(apiRateLimiter, now)
        call == [ fn |-> fn, userId |-> userId, occasion |-> occasion,
                  pc |-> "getClothingItems", hasGenAI |-> genAI,
                  requests |-> apiRateLimiter, now |-> now, userItems |-> << >>,
                  stylist |-> None, ranked |-> << >>, outfits |-> << >>,
                  inserted |-> { }, with |-> Running ]
    IN  /\ calls' = Append([ q \in DOMAIN calls |->
                               IF q \in Running
                               THEN [ calls[q] EXCEPT !.with = @ \cup { p } ]
                               ELSE calls[q] ], call)
        /\ genAI' = (genAI \/ asks)
        /\ apiRateLimiter' = IF asks THEN limiter.requests ELSE apiRateLimiter
        /\ granted' = IF asks /\ limiter.granted THEN Append(granted, now) ELSE granted
        /\ UNCHANGED << clothingItems, currentClothingItemId, shoppingRecommendations,
                        userSuggestionHistory, apiKey, now, pendingRetries, returned, last >>

\* the state the arrival of the wardrobe leaves for call p: userItems is the
\* wardrobe, early the outfits generateAdvancedOutfitSuggestions returns
\* with before it calls the stylist
EndReadWardrobe(p, userItems, early) ==
    LET call == calls[p]
        read == [ call EXCEPT !.userItems = userItems ]
        returns == \/ ~call.hasGenAI /\ ~apiKey
                   \/ ~canMakeRequest(call.requests, call.now).granted
                   \/ Len(userItems) = 0
    IN  /\ IF call.fn = "suggestions"
           THEN /\ calls' = CallsWith(p, IF returns THEN Done(read, early)
                                         ELSE [ read EXCEPT !.pc = "stylist" ])
                /\ UNCHANGED << userSuggestionHistory, genAI >>
           ELSE IF Len(userItems) < 2
           THEN /\ calls' = CallsWith(p, Done(read, << >>))
                /\ UNCHANGED << userSuggestionHistory, genAI >>
           ELSE /\ userSuggestionHistory' =
                       HistoryWith(call.userId, HistoryOf(userSuggestionHistory, call.userId))
                /\ genAI' = (genAI \/ apiKey)
                /\ calls' = CallsWith(p, IF ~genAI /\ ~apiKey THEN Done(read, << >>)
                                         ELSE [ read EXCEPT !.pc = "stylist" ])
        /\ UNCHANGED << clothingItems, currentClothingItemId, shoppingRecommendations,
                        apiKey, apiRateLimiter, now, granted, pendingRetries, returned, last >>

\* storage.getClothingItems resolves for call p, which runs to its next
\* await, the stylist, or returns before it
ReadWardrobe(p) ==
    /\ p \in Running
    /\ calls[p].pc = "getClothingItems"
    /\ EndReadWardrobe(p, getClothingItems(clothingItems, calls[p].userId),
           AdvancedOf(calls[p], getClothingItems(clothingItems, calls[p].userId),
                      [ kind |-> "error", outfits |-> << >> ]).outfits)

\* the state the arrival of the stylist's answer leaves for call p: r is
\* what the rest of its function yields
EndStylistAnswers(p, stylist, r) ==
    LET call == calls[p]
        inserted == r.previousSuggestions \ HistoryOf(userSuggestionHistory, call.userId)
    IN  /\ IF call.fn = "suggestions"
           THEN /\ calls' = CallsWith(p, Done(call, r.outfits))
                /\ UNCHANGED << userSuggestionHistory, shoppingRecommendations >>
           ELSE IF stylist.kind # "outfits"
           THEN /\ calls' = CallsWith(p, [ Done(call, r.outfits) EXCEPT
                                             !.inserted = @ \cup inserted ])
                /\ userSuggestionHistory' = HistoryWith(call.userId, r.previousSuggestions)
                /\ UNCHANGED shoppingRecommendations
           ELSE IF r.ranked = << >>
           THEN /\ calls' = CallsWith(p, [ call EXCEPT !.pc = "shopping",
                                                       !.stylist = Some(stylist) ])
                /\ UNCHANGED << userSuggestionHistory, shoppingRecommendations >>
           ELSE /\ calls' = CallsWith(p, [ call EXCEPT !.pc = "shopping",
                                                       !.stylist = Some(stylist),
                                                       !.ranked = r.ranked,
                                                       !.inserted = @ \cup inserted ])
                /\ userSuggestionHistory' = HistoryWith(call.userId, r.previousSuggestions)
                /\ shoppingRecommendations' = shoppingRecommendations \o r.recommendations
        /\ UNCHANGED << clothingItems, currentClothingItemId, genAI, apiKey, apiRateLimiter,
                        now, granted, pendingRetries, returned, last >>

\* the stylist's answer arrives for call p. generateOutfitSuggestions
\* filters, tracks and ranks in one go and runs to the await on
\* generateShoppingRecommendations, or returns from its catch blocks;
\* generateAdvancedOutfitSuggestions returns.
StylistAnswers(p, stylist) ==
    /\ p \in Running
    /\ calls[p].pc = "stylist"
    /\ EndStylistAnswers(p, stylist,
           IF calls[p].fn = "suggestions"
           THEN AdvancedOf(calls[p], calls[p].userItems, stylist)
           ELSE SuggestOf(calls[p], stylist))

\* the state the end of the await on generateShoppingRecommendations leaves
\* for call p: r is what the inline fallback yields on the history as it is
\* by now
EndAfterShopping(p, r) ==
    LET call == calls[p]
        inserted == r.previousSuggestions \ HistoryOf(userSuggestionHistory, call.userId)
    IN  /\ IF call.ranked # << >>
           THEN /\ calls' = CallsWith(p, Done(call, call.ranked))
                /\ UNCHANGED userSuggestionHistory
           ELSE /\ calls' = CallsWith(p, [ Done(call, r.outfits) EXCEPT
                                             !.inserted = @ \cup inserted ])
                /\ userSuggestionHistory' = HistoryWith(call.userId, r.previousSuggestions)
        /\ UNCHANGED << clothingItems, currentClothingItemId, shoppingRecommendations, genAI,
                        apiKey, apiRateLimiter, now, granted, pendingRetries, returned, last >>

\* the await on generateShoppingRecommendations is over for call p: it
\* returns its ranked outfits, or with none the inline fallback
AfterShopping(p) ==
    /\ p \in Running
    /\ calls[p].pc = "shopping"
    /\ EndAfterShopping(p, SuggestOf(calls[p], calls[p].stylist[1]))

\* ------------------------------------------------------------------------
\* Inputs
\* ------------------------------------------------------------------------
Occasions == { None, Some("business") }

WeatherInputs == { None, Some([ temperature |-> 3, condition |-> "Rainy" ]) }

StylistFailures ==
    { [ kind |-> k, outfits |-> << >> ] : k \in { "quota", "error", "unparseable" } }

\* the draws a batch can use: a rename draws only once every template of the
\* pool is in usedNames, so never for one of the first 8 outfits of a batch
RandomDraws(stylist) ==
    LET n == Len(stylist.outfits)
        pool == Len(StyleTemplates("casual"))
    IN  { [ k \in 1..n |-> IF k <= pool THEN 0 ELSE draw[k] ] :
            draw \in [ (pool + 1)..n -> 0..MaxRandom ] }

InitWith(store, keys, limiters) ==
    /\ clothingItems \in store
    /\ currentClothingItemId = Len(clothingItems) + 1
    /\ shoppingRecommendations = << >>
    /\ userSuggestionHistory = << >>
    /\ genAI = FALSE
    /\ apiKey \in keys
    /\ apiRateLimiter \in limiters
    /\ now = 0
    /\ granted = apiRateLimiter
    /\ pendingRetries = { }
    /\ calls = << >>
    /\ returned = << >>
    /\ last = [ fn |-> "none" ]

\* ------------------------------------------------------------------------
\* Spec: the request pipeline with a stylist that answers
\* ------------------------------------------------------------------------
\* the wardrobes of the demo owner the pipeline is run on
PipelineWardrobes ==
    { kinds \in { << >>, << "dress" >>, << "tee", "jeans" >>, << "jeans", "tee" >>,
                  << "tee", "tee", "jeans" >>, << "tee", "jeans", "sneakers" >>,
                  << "tee", "jeans", "blazer", "jeans" >>,
                  << "tee", "jeans", "sneakers", "coat" >> } : Len(kinds) <= MaxItems }

\* the item-id lists the stylist answers with: the first two items in both
\* orders, the first three items, and the first two items with an id the
\* owner does not have
RawIdLists(userItems) ==
    { << 1, 2 >>, << 2, 1 >>, << 1, 2, UnknownId >> }
        \cup (IF Len(userItems) >= 3 THEN { << 1, 2, 3 >> } ELSE { })

\* the candidates the stylist answers with: unlabelled ones without a
\* confidence, and labelled ones with occasion and confidence
RawOutfits(userItems) ==
    { [ name |-> "Weekend Comfort", occasion |-> None, confidence |-> None, item_ids |-> ids ] :
        ids \in RawIdLists(userItems) }
      \cup
    { [ name |-> "Laid-Back Style", occasion |-> Some("business"), confidence |-> Some(90),
        item_ids |-> << 1, 2 >> ] }

StylistOutcomes(userItems) ==
    StylistFailures
        \cup { [ kind |-> "outfits", outfits |-> raw ] :
                 raw \in SeqsBetween(RawOutfits(userItems), 0, MaxOutfits) }

Init ==
    InitWith({ StoreOf(DEMO_USER_ID, kinds) : kinds \in PipelineWardrobes }, { TRUE }, { << >> })

Next ==
    \/ \E weatherData \in WeatherInputs :
         \E stylist \in StylistOutcomes(getClothingItems(clothingItems, DEMO_USER_ID)) :
           \E randoms \in RandomDraws(stylist) :
             GenerateOutfitSuggestions(DEMO_USER_ID, None, weatherData, None, stylist, randoms)
    \/ \E weatherData \in WeatherInputs :
         \E stylist \in StylistOutcomes(getClothingItems(clothingItems, DEMO_USER_ID)) :
           SuggestionsRoute(None, weatherData, stylist)

Spec == Init /\ [][Next]_vars

\* ------------------------------------------------------------------------
\* Properties of the request pipeline (Spec)
\* ------------------------------------------------------------------------
IsRequest == last.fn \in { "generateOutfitSuggestions", "suggestions" }

\* C1: within one batch of generateOutfitSuggestions no two accepted
\* candidates have the same sorted item-id set, also when the stylist's raw
\* list holds the same combination twice.
C1_BatchCombosDistinct ==
    last.fn = "generateOutfitSuggestions" =>
        \A i, j \in DOMAIN last.accepted :
            i < j => ItemCombo(last.accepted[i].item_ids) # ItemCombo(last.accepted[j].item_ids)

\* C5: at 3 degrees, with outerwear in the wardrobe, every candidate the
\* stylist composed and GET /api/outfits/suggestions returns includes an
\* outerwear item.
C5_ColdComposedHasOuterwear ==
    ( /\ last.fn = "suggestions"
      /\ last.composed
      /\ last.weatherData # None
      /\ last.weatherData[1].temperature = 3
      /\ CategoryCount(last.userItems, "outerwear") > 0 )
    => \A k \in DOMAIN last.outfits :
           CategoryCount(SelectedItems(last.outfits[k].item_ids, last.userItems), "outerwear") > 0

\* C8: a candidate naming an id that is no item of the owner is rejected: no
\* candidate the stylist composed and either pipeline returns names such an id.
C8_UnknownIdRejected ==
    (IsRequest /\ last.composed) =>
        \A k \in DOMAIN last.outfits :
            Range(last.outfits[k].item_ids) \subseteq IdsOf(last.userItems)

\* C9: the candidates of one returned batch have pairwise distinct names,
\* whichever path produced the batch.
C9_BatchNamesDistinct ==
    IsRequest =>
        \A i, j \in DOMAIN last.outfits :
            i < j => last.outfits[i].name # last.outfits[j].name

\* ------------------------------------------------------------------------
\* SpecFallback: the requests while the stylist is unavailable
\* ------------------------------------------------------------------------
\* longest wardrobe of the fallback runs
MaxFallbackItems == 3

FallbackKinds == { "tee", "jeans", "dress" }

\* the limiter after 14 classifier calls at time 0
FullLimiter == [ i \in 1..maxRequests |-> 0 ]

\* a wardrobe on which the loops gather more than the fallback returns: 3
\* pairings and a dress
CapWardrobe == << "tee", "jeans", "tee", "jeans", "dress" >>

\* the wardrobes of exactly 2 tops and 2 bottoms, in every order
TwoByTwoWardrobes ==
    { kinds \in [ 1..4 -> { "tee", "jeans" } ] :
        Cardinality({ i \in 1..4 : kinds[i] = "tee" }) = 2 }

InitFallback ==
    /\ InitWith({ StoreOf(DEMO_USER_ID, kinds) :
                    kinds \in SeqsBetween(FallbackKinds, 0, MaxFallbackItems)
                                 \cup TwoByTwoWardrobes \cup { CapWardrobe } },
                BOOLEAN, { << >>, FullLimiter })
    /\ (apiRateLimiter # << >> => apiKey)

NextFallback ==
    \/ \E occasion \in Occasions, stylist \in StylistFailures :
         GenerateOutfitSuggestions(DEMO_USER_ID, occasion, None, None, stylist, << >>)
    \/ \E occasion \in Occasions, stylist \in StylistFailures :
         SuggestionsRoute(occasion, None, stylist)

SpecFallback == InitFallback /\ [][NextFallback]_vars

\* ------------------------------------------------------------------------
\* Properties of the fallback (SpecFallback)
\* ------------------------------------------------------------------------
\* the combination keys the fallback can pair: the first 2 tops with the
\* first 2 bottoms, and the first 2 dresses
FallbackPairings(userItems) ==
    LET ofCategory(category) ==
            Slice(SelectSeq(userItems, LAMBDA item : item.category = category), 2)
        tops == ofCategory("tops")
        bottoms == ofCategory("bottoms")
        dresses == ofCategory("dresses")
    IN  { ItemCombo(<< tops[i].id, bottoms[j].id >>) : i \in DOMAIN tops, j \in DOMAIN bottoms }
            \cup { ItemCombo(<< dresses[i].id >>) : i \in DOMAIN dresses }

\* C2: two sequential requests through GET /api/outfits/suggestions for the
\* same occasion return no combination in both responses while the first
\* response left fallback pairings unused.
C2_NoRepeatAcrossRequests ==
    \A i, j \in DOMAIN returned :
        ( /\ i < j
          /\ returned[i].fn = "suggestions"
          /\ returned[j].fn = "suggestions"
          /\ returned[i].occasion = returned[j].occasion
          /\ FallbackPairings(getClothingItems(clothingItems, DEMO_USER_ID))
                 \ returned[i].combos # { } )
        => returned[i].combos \cap returned[j].combos = { }

\* the request ran generateBasicOutfitCombinations on a wardrobe of exactly
\* 2 tops and 2 bottoms with an empty history
BasicOnTwoByTwo ==
    /\ IsRequest
    /\ last.basic
    /\ last.before = { }
    /\ Len(last.userItems) = 4
    /\ CategoryCount(last.userItems, "tops") = 2
    /\ CategoryCount(last.userItems, "bottoms") = 2

\* the item_ids of the k-th pairing in iteration order: top 1 with bottoms
\* 1 and 2, then top 2 with bottoms 1 and 2
PairingIds(userItems, k) ==
    LET tops == SelectSeq(userItems, LAMBDA item : item.category = "tops")
        bottoms == SelectSeq(userItems, LAMBDA item : item.category = "bottoms")
    IN  << tops[((k - 1) \div 2) + 1].id, bottoms[((k - 1) % 2) + 1].id >>

PairingsInOrder(n) ==
    /\ Len(last.outfits) = n
    /\ \A k \in 1..n :
          /\ last.outfits[k].item_ids = PairingIds(last.userItems, k)
          /\ last.outfits[k].confidence = Some(75)

\* C6 as stated: on 2 tops, 2 bottoms and an empty history
\* generateBasicOutfitCombinations returns exactly the 4 pairings in
\* iteration order, each with confidence 75.
C6_FourPairings == BasicOnTwoByTwo => PairingsInOrder(4)

\* C6 as amended: on 2 tops, 2 bottoms and an empty history
\* generateBasicOutfitCombinations returns exactly the first 3 pairings in
\* iteration order (top 1 with bottoms 1 and 2, then top 2 with bottom 1),
\* each with confidence 75.
C6_FirstThreePairings == BasicOnTwoByTwo => PairingsInOrder(3)

\* the fallback ran on 2 tops and 2 bottoms and returned 3 candidates
C6_Witness == BasicOnTwoByTwo /\ Len(last.outfits) = 3

\* no API key, the limiter denies, the call throws, or the answer does not parse
StylistUnavailable ==
    last.stylist \in { "no_api_key", "rate_limited", "quota", "error", "unparseable" }

\* C7: with the stylist unavailable a request returns the fallback
\* candidates when the wardrobe holds 2 items or more and the empty list
\* when it does not.
C7_UnavailableGivesFallback ==
    (IsRequest /\ StylistUnavailable) =>
        last.outfits =
            IF Len(last.userItems) >= 2
            THEN generateBasicOutfitCombinations(last.userItems, last.before,
                                                 last.occasion).outfits
            ELSE << >>

\* the stylist failure a request is compared with: a quota error for an
\* unparseable answer and the other way round
OtherFailure(kind) ==
    [ kind |-> IF kind = "quota" THEN "unparseable" ELSE "quota", outfits |-> << >> ]

\* C11: an unparseable stylist answer gives the outcome of a quota failure:
\* on the same wardrobe and history generateOutfitSuggestions returns the
\* same candidates in both cases, and so does
\* generateAdvancedOutfitSuggestions.
C11_UnparseableAsUnavailable ==
    /\ ( /\ last.fn = "generateOutfitSuggestions"
         /\ last.stylist \in { "quota", "unparseable" }
         /\ Len(last.userItems) >= 2 )
       => last.outfits =
              SuggestWithHistory(last.userId, last.userItems, last.before, TRUE, TRUE,
                                 OtherFailure(last.stylist), last.occasion,
                                 last.weatherData, last.userProfile, << >>).outfits
    /\ ( /\ last.fn = "suggestions"
         /\ last.stylist \in { "quota", "unparseable" } )
       => last.outfits =
              generateAdvancedOutfitSuggestions(last.userItems, TRUE, TRUE, << >>, 0,
                                                OtherFailure(last.stylist),
                                                last.occasion).outfits

\* C12: generateBasicOutfitCombinations returns the empty list when the
\* wardrobe holds fewer than 2 items, a single dress included.
C12_BasicEmptyBelowTwoItems ==
    (IsRequest /\ last.basic /\ Len(last.userItems) < 2) => last.outfits = << >>

\* C13: generateBasicOutfitCombinations returns at most 3 candidates, for
\* every wardrobe and every history.
C13_BasicAtMostThree ==
    (IsRequest /\ last.basic) => Len(last.outfits) <= 3

\* the fallback ran on a wardrobe with 3 pairings and a dress to offer, none
\* of them in the history, and returned 3 candidates
C13_Witness ==
    /\ IsRequest
    /\ last.basic
    /\ last.before = { }
    /\ CategoryCount(last.userItems, "tops") = 2
    /\ CategoryCount(last.userItems, "bottoms") = 2
    /\ CategoryCount(last.userItems, "dresses") = 1
    /\ Len(last.outfits) = 3

\* C25: every combination key a call of generateOutfitSuggestions inserts
\* into the owner's history, itself or through
\* generateBasicOutfitCombinations, is the key of a candidate that call
\* returns: none is inserted for a candidate cut off by the cap of 3 or by
\* the truncation to 5.
C25_InsertedKeysReturned ==
    last.fn = "generateOutfitSuggestions" =>
        (HistoryOf(userSuggestionHistory, last.userId) \ last.before)
            \subseteq CombosOf(last.outfits)

\* ------------------------------------------------------------------------
\* SpecValidate: the structural validators on every small wardrobe
\* ------------------------------------------------------------------------
\* largest wardrobe the validators are run on
MaxValidateItems == 4

KindOrder == << "tee", "blazer", "jeans", "dress", "coat", "sneakers", "scarf" >>

\* the wardrobes of n garments as multisets of kinds: the validators count
\* categories, so the order of the wardrobe does not matter to them
KindMultisets(n) ==
    { [ i \in 1..n |-> KindOrder[f[i]] ] :
        f \in { g \in [ 1..n -> DOMAIN KindOrder ] :
                  \A i \in 1..n : i < n => g[i] <= g[i + 1] } }

\* the id lists of a candidate: any choice of the owner's ids, with or
\* without an id the owner does not have
CandidateIds(userItems) ==
    LET ids == [ i \in DOMAIN userItems |-> userItems[i].id ]
        chosen(mask) == SelectSeq(ids, LAMBDA id : mask[id])
    IN  { IF unknown THEN Append(chosen(mask), UnknownId) ELSE chosen(mask) :
            mask \in [ IdsOf(userItems) -> BOOLEAN ], unknown \in BOOLEAN }

\* below both thresholds (accessories below 10, outerwear below 14) twice,
\* between them, above both
Temperatures == { 2, 9, 12, 20 }

\* the stylist's answer with one candidate of these ids
OneCandidate(itemIds) ==
    [ kind |-> "outfits",
      outfits |-> << [ name |-> "Weekend Comfort", occasion |-> None,
                       confidence |-> None, item_ids |-> itemIds ] >> ]

InitValidate ==
    InitWith({ StoreOf(DEMO_USER_ID, kinds) :
                 kinds \in UNION { KindMultisets(n) : n \in 0..MaxValidateItems } },
             { TRUE }, { << >> })

NextValidate ==
    \/ \E itemIds \in CandidateIds(getClothingItems(clothingItems, DEMO_USER_ID)) :
         ValidateOutfitCombination(itemIds, getClothingItems(clothingItems, DEMO_USER_ID))
    \/ \E itemIds \in CandidateIds(getClothingItems(clothingItems, DEMO_USER_ID)) :
         \E temperature \in Temperatures :
           ValidateMandatoryOutfitStructure(itemIds,
               getClothingItems(clothingItems, DEMO_USER_ID), temperature)
    \/ \E itemIds \in CandidateIds(getClothingItems(clothingItems, DEMO_USER_ID)) :
         /\ last.fn = "none"
         /\ SuggestionsRoute(None, None, OneCandidate(itemIds))

SpecValidate == InitValidate /\ [][NextValidate]_vars

\* ------------------------------------------------------------------------
\* Properties of the validators (SpecValidate)
\* ------------------------------------------------------------------------
Accepted(fn) == last.fn = fn /\ last.valid

Resolved == SelectedItems(last.itemIds, last.userItems)

Has(category) == CategoryCount(Resolved, category) > 0

\* no category over its cap: accessories <= 3, shoes <= 2, the others <= 1
WithinCaps ==
    \A category \in Categories :
        CategoryCount(Resolved, category) <=
            (IF category = "accessories" THEN 3 ELSE IF category = "shoes" THEN 2 ELSE 1)

ReturnedItems(k) == SelectedItems(last.outfits[k].item_ids, last.userItems)

\* the candidates GET /api/outfits/suggestions returns are the stylist's
Composed == last.fn = "suggestions" /\ last.composed

\* C16: in mandatory mode a candidate is accepted only if it resolves to 3
\* items or more with a bottom, a top and shoes among them, so a dress does
\* not stand in for a top or a bottom; this holds of
\* validateMandatoryOutfitStructure and of the check inside
\* generateAdvancedOutfitSuggestions.
C16_MandatoryNeedsTopBottomShoes ==
    /\ Accepted("validateMandatoryOutfitStructure") =>
          /\ Len(Resolved) >= 3
          /\ Has("bottoms") /\ Has("tops") /\ Has("shoes")
    /\ Composed =>
          \A k \in DOMAIN last.outfits :
              /\ Len(ReturnedItems(k)) >= 3
              /\ \A category \in { "bottoms", "tops", "shoes" } :
                    CategoryCount(ReturnedItems(k), category) > 0

\* validateMandatoryOutfitStructure accepted a candidate that holds a dress
\* next to its top, bottom and shoes
C16_Witness ==
    /\ Accepted("validateMandatoryOutfitStructure")
    /\ Has("dresses") /\ Has("bottoms") /\ Has("tops") /\ Has("shoes")

\* validateMandatoryOutfitStructure was asked at 2 degrees, the wardrobe
\* holds no outerwear, the candidate is one top, one bottom and one pair of
\* shoes
ColdNoOuterwearBase ==
    /\ last.fn = "validateMandatoryOutfitStructure"
    /\ last.temperature = 2
    /\ CategoryCount(last.userItems, "outerwear") = 0
    /\ Len(Resolved) = 3
    /\ \A category \in { "bottoms", "tops", "shoes" } : CategoryCount(Resolved, category) = 1

\* the wardrobe holds gloves, a scarf, a hat or a beanie
HasColdAccessories ==
    \E i \in DOMAIN last.userItems :
        last.userItems[i].category = "accessories" /\ IsColdAccessory(last.userItems[i])

\* C17 as stated: at 2 degrees, without outerwear in the wardrobe,
\* validateMandatoryOutfitStructure accepts every candidate of one top, one
\* bottom and one pair of shoes, whatever else the wardrobe holds.
C17_BaseAcceptedWithoutOuterwear == ColdNoOuterwearBase => last.valid

\* C17 as amended: at 2 degrees, without outerwear in the wardrobe,
\* validateMandatoryOutfitStructure accepts a candidate of one top, one
\* bottom and one pair of shoes exactly when the wardrobe holds no cold
\* accessory (gloves, scarf, hat, beanie).
C17_BaseAcceptedUnlessColdAccessories ==
    ColdNoOuterwearBase => (last.valid <=> ~HasColdAccessories)

\* the base candidate was accepted at 2 degrees on a wardrobe without
\* outerwear and without cold accessories
C17_Witness == ColdNoOuterwearBase /\ ~HasColdAccessories /\ last.valid

\* C18: no candidate accepted by validateOutfitCombination, by
\* validateMandatoryOutfitStructure or by the check inside
\* generateAdvancedOutfitSuggestions exceeds a cap: accessories <= 3, shoes
\* <= 2, every other category <= 1.
C18_AcceptedWithinCaps ==
    /\ Accepted("validateOutfitCombination") => WithinCaps
    /\ Accepted("validateMandatoryOutfitStructure") => WithinCaps
    /\ Composed =>
          \A k \in DOMAIN last.outfits :
              \A category \in Categories :
                  CategoryCount(ReturnedItems(k), category) <=
                      (IF category = "accessories" THEN 3
                       ELSE IF category = "shoes" THEN 2 ELSE 1)

\* ------------------------------------------------------------------------
\* SpecScore: one request whose single candidate is scored
\* ------------------------------------------------------------------------
ScoreWardrobes == { << "tee", "jeans", "coat" >>, << "blazer", "jeans", "dress" >> }

\* the confidence the stylist gives a candidate: absent, negative, zero,
\* inside the range, at its top, above it
BaseConfidences == { None, Some(-5), Some(0), Some(50), Some(100), Some(150) }

ScoreWeather ==
    { None,
      Some([ temperature |-> 3, condition |-> "Rainy" ]),
      Some([ temperature |-> 8, condition |-> "Sunny" ]),
      Some([ temperature |-> 30, condition |-> "Sunny" ]) }

\* the user profiles: none, one without preferences, one whose favourite
\* colour the candidates wear, one whose avoided colour they may wear
ScoreProfiles ==
    { None,
      Some([ preferences |-> None ]),
      Some([ preferences |-> Some([ favoriteColors |-> << "white" >>, avoidColors |-> << >> ]) ]),
      Some([ preferences |-> Some([ favoriteColors |-> << >>, avoidColors |-> << "Black" >> ]) ]) }

ScoredOutfits ==
    { [ name |-> "Weekend Comfort", occasion |-> None, confidence |-> c, item_ids |-> ids ] :
        c \in BaseConfidences, ids \in { << 1, 2 >>, << 1, 2, 3 >> } }

InitScore ==
    InitWith({ StoreOf(DEMO_USER_ID, kinds) : kinds \in ScoreWardrobes }, { TRUE }, { << >> })

NextScore ==
    \E weatherData \in ScoreWeather, userProfile \in ScoreProfiles, outfit \in ScoredOutfits :
        /\ returned = << >>
        /\ GenerateOutfitSuggestions(DEMO_USER_ID, None, weatherData, userProfile,
                                     [ kind |-> "outfits", outfits |-> << outfit >> ], << 0 >>)

SpecScore == InitScore /\ [][NextScore]_vars

\* C3: every candidate generateOutfitSuggestions returns after scoring has a
\* confidence from 0 to 100, whatever confidence the stylist gave it and
\* whether or not weather and preferences are present.
C3_ConfidenceInRange ==
    (last.fn = "generateOutfitSuggestions" /\ last.composed) =>
        \A k \in DOMAIN last.outfits :
            /\ last.outfits[k].confidence # None
            /\ 0 <= last.outfits[k].confidence[1]
            /\ last.outfits[k].confidence[1] <= 100

\* ------------------------------------------------------------------------
\* SpecNames: one request whose candidates are named
\* ------------------------------------------------------------------------
NamesWardrobes == { << "tee", "jeans", "sneakers", "coat" >>, << "jeans", "blazer", "scarf" >> }

\* the candidates: two names, the occasion absent, recognised or not
NamedOutfits ==
    { [ name |-> n, occasion |-> o, confidence |-> None, item_ids |-> ids ] :
        n \in { "Weekend Comfort", "Laid-Back Style" },
        o \in { None, Some("business"), Some("party") },
        ids \in { << 1, 2 >>, << 2, 3 >>, << 1, 2, 3 >> } }

\* a batch longer than a pool: the stylist repeats one candidate
RepeatedOutfit(outfit, extra) ==
    [ kind |-> "outfits",
      outfits |-> [ k \in 1..(Len(StyleTemplates("casual")) + extra) |-> outfit ] ]

InitNames ==
    InitWith({ StoreOf(DEMO_USER_ID, kinds) : kinds \in NamesWardrobes }, { TRUE }, { << >> })

NextNames ==
    \/ \E outfits \in SeqsBetween(NamedOutfits, 1, MaxOutfits) :
          /\ returned = << >>
          /\ GenerateOutfitSuggestions(DEMO_USER_ID, None, None, None,
                                       [ kind |-> "outfits", outfits |-> outfits ],
                                       [ k \in DOMAIN outfits |-> 0 ])
    \/ \E outfit \in NamedOutfits, extra \in 1..MaxOutfits :
          \E randoms \in RandomDraws(RepeatedOutfit(outfit, extra)) :
              /\ returned = << >>
              /\ GenerateOutfitSuggestions(DEMO_USER_ID, None, None, None,
                                           RepeatedOutfit(outfit, extra), randoms)

SpecNames == InitNames /\ [][NextNames]_vars

\* the pool a rename draws from: the occasion's own, the casual one when the
\* occasion is absent or names no pool
PoolOf(occasion) ==
    IF occasion # None
       /\ occasion[1] \in { "casual", "business", "formal", "date_night", "sporty" }
    THEN StyleTemplates(occasion[1])
    ELSE StyleTemplates("casual")

FirstFree(pool, used) ==
    pool[CHOOSE i \in DOMAIN pool :
            /\ pool[i] \notin used
            /\ \A j \in 1..(i - 1) : pool[j] \in used]

\* C10: a candidate whose name is already in usedNames is renamed to the
\* first template of its occasion's pool that is not yet in usedNames, and
\* the template is registered in usedNames; so the batch "Weekend Comfort",
\* "Weekend Comfort" becomes "Weekend Comfort", "Laid-Back Style".
C10_RenamedToFirstFreeTemplate ==
    last.fn = "generateOutfitSuggestions" =>
        /\ \A k \in DOMAIN last.naming :
              LET entry == last.naming[k]
                  pool == PoolOf(entry.occasion)
              IN  ( /\ entry.given \in entry.used
                    /\ \E i \in DOMAIN pool : pool[i] \notin entry.used )
                  => /\ entry.name = FirstFree(pool, entry.used)
                     /\ entry.registered = entry.used \cup { entry.name }
                     /\ last.accepted[k].name = entry.name
        /\ ( /\ Len(last.naming) = 2
             /\ \A k \in 1..2 : /\ last.naming[k].given = "Weekend Comfort"
                                /\ last.naming[k].occasion = None )
           => /\ last.accepted[1].name = "Weekend Comfort"
              /\ last.accepted[2].name = "Laid-Back Style"
              /\ { last.outfits[k].name : k \in DOMAIN last.outfits }
                     = { "Weekend Comfort", "Laid-Back Style" }

\* the batch "Weekend Comfort", "Weekend Comfort" went through the naming
\* step and its second candidate was renamed
C10_Witness ==
    /\ last.fn = "generateOutfitSuggestions"
    /\ Len(last.naming) = 2
    /\ last.naming[1].given = "Weekend Comfort"
    /\ last.naming[2].given = "Weekend Comfort"
    /\ last.naming[2].occasion = None
    /\ last.naming[2].given \in last.naming[2].used
    /\ last.naming[2].name = "Laid-Back Style"

\* ------------------------------------------------------------------------
\* SpecFilter: one request under every occasion and weather
\* ------------------------------------------------------------------------
FilterWardrobes ==
    { << "tee", "jeans", "sneakers", "coat" >>, << "blazer", "jeans", "dress", "scarf" >> }

\* absent, the five occasions the filter knows, and one it does not
FilterOccasions ==
    { None, Some("casual"), Some("sporty"), Some("business"), Some("formal"),
      Some("date_night"), Some("party") }

\* below 5 degrees, between 5 and 25, above 25; rainy or not
FilterWeather ==
    { None } \cup
    { Some([ temperature |-> t, condition |-> c ]) :
        t \in { 3, 15, 30 }, c \in { "Rainy", "Sunny" } }

FilterStylist ==
    StylistFailures \cup
    { [ kind |-> "outfits",
        outfits |-> << [ name |-> "Weekend Comfort", occasion |-> None,
                         confidence |-> None, item_ids |-> ids ] >> ] :
        ids \in { << 1, 2 >>, << 1, 2, 3 >>, << 2, 3, 4 >> } }

InitFilter ==
    InitWith({ StoreOf(DEMO_USER_ID, kinds) : kinds \in FilterWardrobes }, { TRUE }, { << >> })

NextFilter ==
    \E occasion \in FilterOccasions, weatherData \in FilterWeather, stylist \in FilterStylist :
        /\ returned = << >>
        /\ GenerateOutfitSuggestions(DEMO_USER_ID, occasion, weatherData, None, stylist, << 0 >>)

SpecFilter == InitFilter /\ [][NextFilter]_vars

\* an item without weather tags: neither the weatherSuitability column nor
\* the analysis names any
Untagged(item) ==
    item.weatherSuitability = None /\ Analysis(item).weather_suitability = None

\* C14: the weather filter of generateOutfitSuggestions retains every item
\* whose weatherSuitability is unset, at every temperature and condition.
C14_UntaggedRetained ==
    ( /\ last.fn = "generateOutfitSuggestions"
      /\ last.weatherSuitableItems # None )
    => \A i \in DOMAIN last.userItems :
           ( /\ Untagged(last.userItems[i])
             /\ last.userItems[i].id \in last.occasionFilteredItems[1] )
           => last.userItems[i].id \in last.weatherSuitableItems[1]

\* C15: every item of every candidate generateOutfitSuggestions returns
\* passed the occasion filter and the weather filter of the request.
C15_ReturnedItemsPassedFilters ==
    ( /\ last.fn = "generateOutfitSuggestions"
      /\ last.composed )
    => \A k \in DOMAIN last.outfits :
           Range(last.outfits[k].item_ids) \subseteq last.weatherSuitableItems[1]

\* ------------------------------------------------------------------------
\* SpecHistory: requests of two owners between uploads and deletions
\* ------------------------------------------------------------------------
\* most uploads in one behaviour
MaxUploads == 1

\* a second owner, next to the demo owner
OTHER_USER_ID == DEMO_USER_ID + 1

\* the store at the start: the demo owner's two items, then the other owner's
HistoryStore ==
    StoreOf(DEMO_USER_ID, << "tee", "jeans" >>)
        \o [ i \in 1..2 |-> ClothingItem(2 + i, OTHER_USER_ID, << "blazer", "jeans" >>[i]) ]

\* the stylist fails, or answers with the owner's first two items
HistoryStylist(userItems) ==
    StylistFailures \cup
    (IF Len(userItems) >= 2
     THEN { OneCandidate(<< userItems[1].id, userItems[2].id >>) } ELSE { })

\* deletions name the first item of either owner, or an id not yet assigned
InitHistory == InitWith({ HistoryStore }, { TRUE }, { << >> })

NextHistory ==
    \/ \E userId \in { DEMO_USER_ID, OTHER_USER_ID } :
         \E stylist \in HistoryStylist(getClothingItems(clothingItems, userId)) :
           GenerateOutfitSuggestions(userId, None, None, None, stylist, << 0 >>)
    \/ \E stylist \in StylistFailures : SuggestionsRoute(None, None, stylist)
    \/ \E kind \in { "tee", "dress" }, duplicate \in { "none", "name" } :
         /\ currentClothingItemId <= Len(HistoryStore) + MaxUploads
         /\ UploadClothingItem(kind, duplicate, << "analysis", "analysis" >>)
    \/ \E id \in { 1, 3, currentClothingItemId } : DeleteClothingItem(id)
    \/ DeleteAllClothingItems

SpecHistory == InitHistory /\ [][NextHistory]_vars

\* C19: the suggestion history of an owner only grows: over requests,
\* fallback generations, uploads and deletions every key of an owner's
\* history stays in it, and a request for one owner leaves the history of
\* every other owner as it was.
C19_HistoryOnlyGrows ==
    [][ /\ \A u \in DOMAIN userSuggestionHistory :
              /\ u \in DOMAIN userSuggestionHistory'
              /\ userSuggestionHistory[u] \subseteq userSuggestionHistory'[u]
        /\ \A u \in DOMAIN userSuggestionHistory' :
              (last'.fn \notin { "generateOutfitSuggestions" } \/ u # last'.userId)
              => /\ u \in DOMAIN userSuggestionHistory
                 /\ userSuggestionHistory'[u] = userSuggestionHistory[u] ]_vars

\* both owners have keys in their histories and the demo owner's wardrobe
\* has been emptied since
C19_Witness ==
    /\ DOMAIN userSuggestionHistory = { DEMO_USER_ID, OTHER_USER_ID }
    /\ userSuggestionHistory[DEMO_USER_ID] # { }
    /\ userSuggestionHistory[OTHER_USER_ID] # { }
    /\ getClothingItems(clothingItems, DEMO_USER_ID) = << >>

\* ------------------------------------------------------------------------
\* SpecSort: one request whose candidates are sorted and truncated
\* ------------------------------------------------------------------------
\* most candidates in the stylist's answer
MaxSorted == 6

\* the k-th candidate's items: the combinations of a four-item wardrobe
SortCombos ==
    << << 1, 2 >>, << 1, 3 >>, << 1, 4 >>, << 2, 3 >>, << 2, 4 >>, << 3, 4 >>,
       << 1, 2, 3 >>, << 1, 2, 4 >> >>

\* the confidence the stylist gives a candidate: absent, negative, inside
\* the range
SortConfidences == { None, Some(-5), Some(90) }

\* the stylist's answer with these confidences, one candidate each
SortedAnswer(confidences) ==
    [ kind |-> "outfits",
      outfits |-> [ k \in DOMAIN confidences |->
                      [ name |-> "Look " \o ToString(k), occasion |-> None,
                        confidence |-> confidences[k], item_ids |-> SortCombos[k] ] ] ]

InitSort ==
    InitWith({ StoreOf(DEMO_USER_ID, << "tee", "jeans", "sneakers", "coat" >>) },
             { TRUE }, { << >> })

NextSort ==
    \E confidences \in SeqsBetween(SortConfidences, 1, Min(MaxSorted, Len(SortCombos))) :
      \E weatherData \in { None, Some([ temperature |-> 30, condition |-> "Sunny" ]) } :
        /\ returned = << >>
        /\ GenerateOutfitSuggestions(DEMO_USER_ID, None, weatherData, None,
                                     SortedAnswer(confidences),
                                     [ k \in DOMAIN confidences |-> 0 ])

SpecSort == InitSort /\ [][NextSort]_vars

\* the confidence the comparator reads: b.confidence || 0
ConfidenceOf(outfit) == OrElse(outfit.confidence, 0)

\* how often a candidate occurs in a list
Occurrences(outfit, outfits) == Cardinality({ k \in DOMAIN outfits : outfits[k] = outfit })

\* C20: the scored candidates generateOutfitSuggestions returns are in
\* non-increasing order of confidence, at most 5 of them, and every scored
\* candidate the truncation dropped has a confidence less than or equal to
\* that of every returned candidate.
C20_SortedTopFive ==
    (last.fn = "generateOutfitSuggestions" /\ last.composed) =>
        /\ Len(last.outfits) = Min(5, Len(last.accepted))
        /\ \A i, j \in DOMAIN last.outfits :
              i < j => ConfidenceOf(last.outfits[i]) >= ConfidenceOf(last.outfits[j])
        /\ \A scored \in Range(last.accepted) :
              /\ Occurrences(scored, last.outfits) <= Occurrences(scored, last.accepted)
              /\ Occurrences(scored, last.outfits) < Occurrences(scored, last.accepted)
                 => \A k \in DOMAIN last.outfits :
                        ConfidenceOf(scored) <= ConfidenceOf(last.outfits[k])
        /\ Range(last.outfits) \subseteq Range(last.accepted)

\* six candidates were scored, five returned, and the returned ones differ
\* in confidence
C20_Witness ==
    /\ last.fn = "generateOutfitSuggestions"
    /\ Len(last.accepted) = 6
    /\ Len(last.outfits) = 5
    /\ ConfidenceOf(last.outfits[1]) > ConfidenceOf(last.outfits[5])
    /\ \E k \in 1..5 : ConfidenceOf(last.accepted[k]) < ConfidenceOf(last.accepted[k + 1])

\* ------------------------------------------------------------------------
\* SpecShopping: requests whose ranked outfits reach the shopping analysis
\* ------------------------------------------------------------------------
\* most records in the store
MaxRecommendations == 2

\* the confidences the stylist labels a candidate with
ShoppingConfidences == { None, Some(0), Some(69), Some(70), Some(90) }

\* the stylist answers with one or two candidates on the first two items
ShoppingStylist ==
    { [ kind |-> "outfits",
        outfits |-> [ k \in 1..Len(confidences) |->
                        [ name |-> << "Weekend Comfort", "Laid-Back Style" >>[k],
                          occasion |-> None, confidence |-> confidences[k],
                          item_ids |-> << << 1, 2 >>, << 2, 3 >> >>[k] ] ] ] :
        confidences \in SeqsBetween(ShoppingConfidences, 1, 2) }

InitShopping ==
    InitWith({ StoreOf(DEMO_USER_ID, kinds) :
                 kinds \in { << "tee", "jeans", "blazer" >>, << "dress" >> } },
             { TRUE }, { << >> })

NextShopping ==
    \/ \E weatherData \in WeatherInputs, stylist \in ShoppingStylist \cup StylistFailures :
         /\ Len(shoppingRecommendations) < MaxRecommendations
         /\ GenerateOutfitSuggestions(DEMO_USER_ID, None, weatherData, None, stylist,
                                      << 0, 0 >>)
    \/ \E weatherData \in WeatherInputs :
         /\ Len(shoppingRecommendations) < MaxRecommendations
         /\ ShoppingAnalyze(weatherData)

SpecShopping == InitShopping /\ [][NextShopping]_vars

\* some outfit of the ranked list has a confidence below 70
SomeBelow70(ranked) ==
    \E k \in DOMAIN ranked : ranked[k].confidence # None /\ ranked[k].confidence[1] < 70

\* C21: a step stores a shopping record only when
\* generateShoppingRecommendations was given a ranked outfit of confidence
\* below 70; given an empty list or only confidences of 70 and more it
\* leaves the store of records as it was.
C21_RecordOnlyBelow70 ==
    [][ shoppingRecommendations' # shoppingRecommendations
          => /\ last'.fn \in { "generateOutfitSuggestions", "shoppingAnalyze" }
             /\ SomeBelow70(last'.ranked) ]_vars

\* a request stored a record for ranked outfits one of which is below 70
C21_Witness ==
    /\ last.fn = "generateOutfitSuggestions"
    /\ Len(last.ranked) = 2
    /\ SomeBelow70(last.ranked)
    /\ \E k \in DOMAIN last.ranked :
          last.ranked[k].confidence # None /\ last.ranked[k].confidence[1] >= 70
    /\ shoppingRecommendations # << >>

\* ------------------------------------------------------------------------
\* SpecLimiter: classifier and stylist calls on one limiter while time passes
\* ------------------------------------------------------------------------
\* most uploads stored in one behaviour of the limiter runs
MaxLimiterUploads == 1

\* the times the clock shows after the start: the last millisecond of the
\* window that starts at 0, and the first millisecond after it
ClockTimes == { timeWindow - 1, timeWindow }

InitLimiter == InitWith({ StoreOf(DEMO_USER_ID, << "tee", "jeans" >>) }, { TRUE }, { << >> })

NextLimiter ==
    \/ \E time \in ClockTimes : Tick(time)
    \/ \E duplicate \in { "none", "features" }, classifier \in { "analysis", "error" } :
         /\ currentClothingItemId <= 2 + MaxLimiterUploads
         /\ UploadClothingItem("dress", duplicate, << classifier, classifier >>)
    \/ \E retry \in pendingRetries : RetryAnalysis(retry, "analysis")
    \/ \E stylist \in { [ kind |-> "error", outfits |-> << >> ] } :
         SuggestionsRoute(None, None, stylist)

SpecLimiter == InitLimiter /\ [][NextLimiter]_vars

\* the grants in the window of timeWindow milliseconds that starts at time
GrantsInWindow(log, time) ==
    Cardinality({ k \in DOMAIN log : log[k] >= time /\ log[k] - time < timeWindow })

\* the last handler asked the limiter and was denied
Denied ==
    \/ last.fn \in { "uploadClothingItem", "retryAnalysis" } /\ last.denied
    \/ last.fn = "suggestions" /\ last.stylist = "rate_limited"

\* C22: the limiter grants at most 14 requests in any window of 60,000 ms,
\* classifier and stylist calls counted together, and a call it denies adds
\* no request time to the limiter: a step records no more request times
\* than it was granted requests.
C22_AtMost14PerWindow ==
    [][ /\ \A k \in DOMAIN granted' : GrantsInWindow(granted', granted'[k]) <= maxRequests
        /\ Len(apiRateLimiter') <= Len(apiRateLimiter) + (Len(granted') - Len(granted))
      ]_vars

\* the limiter has granted 14 requests in the window that starts at 0, to
\* the stylist and to the classifier, has denied the next call, and has
\* granted again once that window was over
C22_Witness ==
    /\ GrantsInWindow(granted, 0) = maxRequests
    /\ Len(granted) > maxRequests
    /\ now = timeWindow
    /\ Len(returned) > 0
    /\ Denied

\* the item the last upload stored, as the store holds it
StoredItems ==
    SelectSeq(clothingItems, LAMBDA item : item.id = last.id)

\* C24: after an upload whose classification succeeded the stored item has
\* isVerified = true, and after an upload whose classification failed it
\* has isVerified = false.
C24_VerifiedIffClassified ==
    ( /\ last.fn = "uploadClothingItem"
      /\ last.stored )
    => /\ Len(StoredItems) = 1
       /\ StoredItems[1].isVerified = (last.analysis # None)

\* ------------------------------------------------------------------------
\* SpecConcurrent: suggestion calls of one owner that overlap
\* ------------------------------------------------------------------------
\* most suggestion calls started in one behaviour
MaxConcurrent == 2

\* the stylist fails, or answers with one candidate or with none accepted
ConcurrentStylist ==
    StylistFailures \cup { OneCandidate(<< 1, 2 >>), OneCandidate(<< 2, 3 >>),
                           OneCandidate(<< 1, 3 >>) }

InitConcurrent ==
    InitWith({ StoreOf(DEMO_USER_ID, kinds) :
                 kinds \in { << "tee", "jeans", "blazer" >>, << "dress" >> } },
             BOOLEAN, { << >>, FullLimiter })

NextConcurrent ==
    \/ \E fn \in { "generateOutfitSuggestions", "suggestions" } :
         /\ Len(calls) < MaxConcurrent
         /\ StartCall(fn, DEMO_USER_ID, None)
    \/ \E p \in DOMAIN calls : ReadWardrobe(p)
    \/ \E p \in DOMAIN calls, stylist \in ConcurrentStylist : StylistAnswers(p, stylist)
    \/ \E p \in DOMAIN calls : AfterShopping(p)

SpecConcurrent == InitConcurrent /\ [][NextConcurrent]_vars

\* two calls of one owner that both returned and ran at the same time
Overlapped(p, q) ==
    /\ p # q
    /\ calls[p].pc = "done"
    /\ calls[q].pc = "done"
    /\ calls[p].userId = calls[q].userId
    /\ q \in calls[p].with

\* every key a call inserted is in the owner's history
NoInsertionLost ==
    \A p \in DOMAIN calls :
        calls[p].inserted \subseteq HistoryOf(userSuggestionHistory, calls[p].userId)

\* C23: of two suggestion calls of one owner that run at the same time no
\* history insertion is lost and no combination is returned by both.
C23_ConcurrentCallsDisjoint ==
    /\ NoInsertionLost
    /\ \A p, q \in DOMAIN calls :
          Overlapped(p, q) =>
              CombosOf(calls[p].outfits) \cap CombosOf(calls[q].outfits) = { }

\* ------------------------------------------------------------------------
\* SpecReject: requests whose candidates the filter rejects
\* ------------------------------------------------------------------------
\* a top and a bottom of clashing colours; two tops and a bottom; a top and
\* two bottoms
RejectWardrobes ==
    { << "neon_top", "pink_skirt" >>, << "tee", "tee", "jeans" >>, << "tee", "jeans", "jeans" >> }

\* the stylist fails, or answers with one candidate on two of the first
\* three ids
RejectStylist ==
    StylistFailures \cup { OneCandidate(ids) : ids \in { << 1, 2 >>, << 1, 3 >>, << 2, 3 >> } }

InitReject ==
    InitWith({ StoreOf(DEMO_USER_ID, kinds) : kinds \in RejectWardrobes }, { TRUE }, { << >> })

NextReject ==
    \E weatherData \in WeatherInputs, stylist \in RejectStylist :
        GenerateOutfitSuggestions(DEMO_USER_ID, None, weatherData, None, stylist, << 0 >>)

SpecReject == InitReject /\ [][NextReject]_vars

\* the raw candidates of the last request that the filter passed on to the
\* validator, which rejected them
RejectedByValidator ==
    { k \in DOMAIN last.raw :
        /\ ~(Len(last.raw[k].item_ids) < 2)
        /\ ItemCombo(last.raw[k].item_ids) \notin last.before
        /\ ~validateOutfitCombination(last.raw[k].item_ids, last.userItems) }

\* the raw candidates of the last request rejected as suggested before
RejectedAsDuplicate ==
    { k \in DOMAIN last.raw :
        /\ ~(Len(last.raw[k].item_ids) < 2)
        /\ ItemCombo(last.raw[k].item_ids) \in last.before }

\* C26: the combination key of a candidate that validateOutfitCombination
\* rejects in generateOutfitSuggestions is not in the owner's history after
\* the request, and the key of a candidate rejected as suggested before
\* stays in it.
C26_RejectedKeyNotInserted ==
    ( /\ last.fn = "generateOutfitSuggestions"
      /\ last.stylist = "outfits" )
    => /\ \A k \in RejectedByValidator :
             ItemCombo(last.raw[k].item_ids)
                 \notin HistoryOf(userSuggestionHistory, last.userId)
       /\ \A k \in RejectedAsDuplicate :
             ItemCombo(last.raw[k].item_ids) \in HistoryOf(userSuggestionHistory, last.userId)

\* ------------------------------------------------------------------------
\* SpecBasic: generateBasicOutfitCombinations called again and again on one
\* wardrobe, with the owner's history kept between the calls
\* ------------------------------------------------------------------------
QuotaStylist == [ kind |-> "quota", outfits |-> << >> ]

\* longest wardrobe of the repeated calls, next to the two wardrobes below
MaxBasicItems == 3

\* 2 tops and 2 bottoms: the loops can pair 4 combinations, 3 to a call
TwoByTwoWardrobe == << "tee", "jeans", "tee", "jeans" >>

InitBasic ==
    InitWith({ StoreOf(DEMO_USER_ID, kinds) :
                 kinds \in SeqsBetween(FallbackKinds, 2, MaxBasicItems)
                              \cup { TwoByTwoWardrobe, CapWardrobe } },
             { TRUE }, { << >> })

\* the state generateOutfitSuggestions leaves when the stylist call throws a
\* quota error: the catch returns what generateBasicOutfitCombinations yields
\* (r) on userItems and the owner's history
EndQuotaRequest(userId, occasion, userItems, before, r) ==
    /\ Len(userItems) >= 2
    /\ genAI \/ apiKey
    /\ userSuggestionHistory' =
           [ u \in DOMAIN userSuggestionHistory \cup { userId } |->
               IF u = userId THEN r.previousSuggestions ELSE userSuggestionHistory[u] ]
    /\ genAI' = TRUE
    /\ last' = [ fn |-> "generateOutfitSuggestions", userId |-> userId,
                 occasion |-> occasion, stylist |-> QuotaStylist.kind,
                 userItems |-> userItems, before |-> before,
                 basic |-> TRUE, outfits |-> r.outfits ]
    /\ UNCHANGED << clothingItems, currentClothingItemId, shoppingRecommendations, apiKey,
                    apiRateLimiter, now, granted, pendingRetries, calls, returned >>

\* generateOutfitSuggestions(userId, occasion) while the stylist is over quota
QuotaRequest(userId, occasion) ==
    \E userItems \in { getClothingItems(clothingItems, userId) } :
        \E r \in { generateBasicOutfitCombinations(
                        userItems, HistoryOf(userSuggestionHistory, userId), occasion) } :
            EndQuotaRequest(userId, occasion, userItems,
                            HistoryOf(userSuggestionHistory, userId), r)

NextBasic == \E occasion \in Occasions : QuotaRequest(DEMO_USER_ID, occasion)

\* the calls repeat: a further request is always made
SpecBasic == InitBasic /\ [][NextBasic]_vars /\ WF_vars(NextBasic)

\* the last call of generateBasicOutfitCombinations returned the empty list
BasicReturnedEmpty ==
    /\ last.fn = "generateOutfitSuggestions"
    /\ last.basic
    /\ last.outfits = << >>

\* every two-item candidate of the last call pairs one of the first 2 tops
\* with one of the first 2 bottoms, and its key was not in the history before
PairsFromFirstTwo ==
    (last.fn = "generateOutfitSuggestions" /\ last.basic) =>
        LET tops == Slice(SelectSeq(last.userItems, LAMBDA item : item.category = "tops"), 2)
            bottoms == Slice(SelectSeq(last.userItems,
                                       LAMBDA item : item.category = "bottoms"), 2)
        IN  \A k \in DOMAIN last.outfits :
                Len(last.outfits[k].item_ids) = 2 =>
                    /\ \E i \in DOMAIN tops, j \in DOMAIN bottoms :
                           last.outfits[k].item_ids = << tops[i].id, bottoms[j].id >>
                    /\ ItemCombo(last.outfits[k].item_ids) \notin last.before

MaxConfidence == 100

RangeOutfits ==
    { [ name |-> "Weekend Comfort", occasion |-> None, confidence |-> Some(c),
        item_ids |-> ids ] :
        c \in 0..MaxConfidence, ids \in { << 1, 2 >>, << 1, 2, 3 >> } }

InitConfidence ==
    InitWith({ StoreOf(DEMO_USER_ID, kinds) : kinds \in ScoreWardrobes }, { TRUE }, { << >> })

NextConfidence ==
    \E weatherData \in ScoreWeather, userProfile \in ScoreProfiles, outfit \in RangeOutfits :
        /\ returned = << >>
        /\ GenerateOutfitSuggestions(DEMO_USER_ID, None, weatherData, userProfile,
                                     [ kind |-> "outfits", outfits |-> << outfit >> ], << 0 >>)

SpecConfidence == InitConfidence /\ [][NextConfidence]_vars

\* the request scored its one candidate
ScoredOne ==
    /\ last.fn = "generateOutfitSuggestions"
    /\ last.composed
    /\ Len(last.raw) = 1
    /\ Len(last.outfits) = 1

\* the items of the scored candidate
ScoredItems == SelectedItems(last.raw[1].item_ids, last.userItems)

\* the penalty steps the scorer took on a candidate, each as the pair of
\* the confidence before the step and the confidence after it
PenaltySteps(confidence, items, weatherData, userProfile) ==
    LET cold == weatherData # None /\ weatherData[1].temperature < 10
        afterLayering == IF cold THEN LayeringAdjust(confidence, items) ELSE confidence
        afterWeather ==
            IF weatherData # None
            THEN WeatherAdjust(afterLayering, items, weatherData[1].temperature,
                               ToLowerCase(weatherData[1].condition))
            ELSE afterLayering
        preferences == ContextPreferences(userProfile)
        afterFavorite ==
            IF preferences # None
            THEN FavoriteAdjust(afterWeather, preferences[1], items)
            ELSE afterWeather
    IN  (IF cold /\ ~HasOuterwearLayer(items)
         THEN { << "outerwear", confidence, afterLayering >> } ELSE { })
        \cup
        (IF weatherData # None
            /\ ~WeatherAppropriate(items, weatherData[1].temperature,
                                   ToLowerCase(weatherData[1].condition))
         THEN { << "weather", afterLayering, afterWeather >> } ELSE { })
        \cup
        (IF preferences # None /\ ColorsMatch(preferences[1].avoidColors, items)
         THEN { << "avoided", afterFavorite,
                   AvoidAdjust(afterFavorite, preferences[1], items) >> }
         ELSE { })

\* C28: a penalty step of the scorer (missing outerwear, weather mismatch,
\* avoided colour) never leaves the candidate with a higher confidence than
\* it had before the step, for every prior confidence from 0 to 100.
C28_PenaltyNeverRaises ==
    ScoredOne =>
        \A step \in PenaltySteps(last.raw[1].confidence, ScoredItems,
                                  last.weatherData, last.userProfile) :
            (step[2] # None /\ step[2][1] \in 0..MaxConfidence) => step[3][1] <= step[2][1]

\* C29: the scorer is monotone in the base confidence: with the same items,
\* weather and profile, a base confidence a <= b (both from 0 to 100) never
\* gets a higher final confidence than b; a base of 0 is scored as 0.
C29_MonotoneInBase ==
    ScoredOne =>
        \A a \in 0..last.raw[1].confidence[1] :
            ScoreConfidence(Some(a), ScoredItems, last.weatherData, last.userProfile)[1]
                <= last.outfits[1].confidence[1]

\* ------------------------------------------------------------------------
\* SpecColours: validateOutfitCombination on candidates of many colours
\* ------------------------------------------------------------------------
\* wardrobes with each clash pair, one of them inside a longer colour name,
\* and one whose items carry 9 distinct colours ('Red' and 'red' are one)
ColourWardrobes ==
    { << "neon_top", "pink_skirt", "sneakers" >>,
      << "neon_jacket", "pink_skirt", "tee" >>,
      << "lime_cap", "magenta_heels", "tee", "jeans" >>,
      << "yellow_belt", "purple_bag", "dress" >>,
      << "shawl", "tote", "tee", "jeans", "dress" >> }

InitColours ==
    InitWith({ StoreOf(DEMO_USER_ID, kinds) : kinds \in ColourWardrobes }, { TRUE }, { << >> })

NextColours ==
    \E itemIds \in CandidateIds(getClothingItems(clothingItems, DEMO_USER_ID)) :
        ValidateOutfitCombination(itemIds, getClothingItems(clothingItems, DEMO_USER_ID))

SpecColours == InitColours /\ [][NextColours]_vars

\* the lower-cased colours of the validated candidate
CandidateColours == UniqueColors(SelectedItems(last.itemIds, last.userItems))

\* both members of a clash pair are among the colours
HoldsClashPair(colours) ==
    \E clash \in ExtremeClashes : clash[1] \in colours /\ clash[2] \in colours

\* both members of a clash pair are inside colours of the candidate
IncludesClashPair(colours) ==
    \E clash \in ExtremeClashes :
        /\ \E c \in colours : Includes(c, clash[1])
        /\ \E c \in colours : Includes(c, clash[2])

\* the wardrobe with the colours taken off every item
Uncoloured(userItems) ==
    [ i \in DOMAIN userItems |-> [ userItems[i] EXCEPT !.colors = << >> ] ]

\* the candidate is rejected, and would be accepted without its colours
RejectedOnColour ==
    /\ ~last.valid
    /\ validateOutfitCombination(last.itemIds, Uncoloured(last.userItems))

\* C30 as stated: validateOutfitCombination rejects every candidate whose
\* lower-cased colours hold both members of an extreme-clash pair or are
\* more than 8, and rejects no other candidate on colour grounds.
C30_ClashPairOrNineColours ==
    last.fn = "validateOutfitCombination" =>
        IF HoldsClashPair(CandidateColours) \/ Cardinality(CandidateColours) > 8
        THEN ~last.valid
        ELSE ~RejectedOnColour

\* C30: validateOutfitCombination rejects every candidate among whose
\* lower-cased colours one includes the first member and one includes the
\* second member of an extreme-clash pair, or whose distinct lower-cased
\* colours are more than 8, and rejects no other candidate on colour grounds.
C30_ClashInsideOrNineColours ==
    last.fn = "validateOutfitCombination" =>
        IF IncludesClashPair(CandidateColours) \/ Cardinality(CandidateColours) > 8
        THEN ~last.valid
        ELSE ~RejectedOnColour

\* a candidate was rejected for a clash pair, with no more than 8 colours
C30_Witness ==
    /\ last.fn = "validateOutfitCombination"
    /\ RejectedOnColour
    /\ HoldsClashPair(CandidateColours)
    /\ Cardinality(CandidateColours) <= 8

====
